---- MODULE Spec2Model ----
(***************************************************************************)
(* Model of fasttrips/PathSet.py: the process-wide weight table            *)
(* PathSet.WEIGHTS_DF, its validation by PathSet.verify_weight_config and  *)
(* the cost / probability computation of PathSet.calculate_cost, and the  *)
(* PathSet object of a traveler-trip (constructor, accessors, reset).      *)
(*                                                                         *)
(* Data frames are sequences of records (one record per row, one field per *)
(* column).  numpy.nan in a numeric column is the value NaN, a missing     *)
(* string cell is the value Null.  Times and variable values are whole     *)
(* minutes, weight values are whole numbers.                               *)
(***************************************************************************)
EXTENDS Integers, Sequences, FiniteSets, TLC

VARIABLES
    WEIGHTS_DF,      \* PathSet.WEIGHTS_DF: the process-wide weight table
    weights_file,    \* contents of OUTPUT_WEIGHTS_FILE in output_dir, or NoFile
    pc,              \* "setup" | "ready" | "exited" | "simulation" | "aborted"
    exit_status,     \* argument of sys.exit, 0 while the process lives
    error_str,       \* the report handed to FastTripsLogger.fatal by the last verify call
    trip_list_df,    \* the demand: one row per traveler-trip
    pathset_paths_df,\* the simulation's path table (one row per path)
    pathset_links_df,\* the simulation's link table (one row per link of a path)
    STOCH_DISPERSION,\* Assignment.STOCH_DISPERSION, the configured dispersion
    nan_group_sum,   \* what the installed pandas sums a group of nothing but NaN to
    drive_df,        \* the drive access/egress table handed to calculate_cost
    transfers_df,    \* the stop-to-stop transfer table handed to calculate_cost
    pathset,         \* the fields of a PathSet object, NoPathSet before it is constructed
    call             \* arguments, entry state and intermediate tables of the last operation

vars == << WEIGHTS_DF, weights_file, pc, exit_status, error_str,
           trip_list_df, pathset_paths_df, pathset_links_df, STOCH_DISPERSION,
           nan_group_sum, drive_df, transfers_df, pathset, call >>

(***************************************************************************)
(* Values                                                                  *)
(***************************************************************************)
NaN == -1000000        \* numpy.nan in a numeric column (below every number of the model)
Null == "NaN"          \* a missing cell of a string column
NoFile == << >>        \* the weight file has not been written
HUGE_COST == 9999
BUMP_EXPERIENCED_COST == 999999

STATE_MODE_ACCESS   == "access"
STATE_MODE_EGRESS   == "egress"
STATE_MODE_TRANSFER == "transfer"
STATE_MODE_TRIP     == "transit"

\* Python compares strings by code point: the strings of the model in that order.
StringOrder ==
    << "PNR", "access", "all", "at_capacity", "bike_access", "biz", "dist", "drive_access",
       "drive_egress", "egress", "express_bus", "in_vehicle_time_min", "local_bus", "overcap",
       "preferred_delay_min", "time_min", "transfer", "transfer_penalty",
       "transit", "wait_time_min", "walk", "walk_access", "walk_egress",
       "walk_time_min" >>

StrRank(s) == CHOOSE i \in 1..Len(StringOrder) : StringOrder[i] = s

WRow(uc, dmt, dm, sm, wn, wv) ==
    [user_class |-> uc, demand_mode_type |-> dmt, demand_mode |-> dm,
     supply_mode |-> sm, weight_name |-> wn, weight_value |-> wv,
     supply_mode_num |-> NaN]

\* The weight configuration file the tables of the model are cut from, in the
\* order its author wrote the rows (not sorted).
WeightFile ==
    << WRow("all", "transit",  "transit",  "local_bus",   "wait_time_min",       2),
       WRow("all", "transit",  "transit",  "local_bus",   "in_vehicle_time_min", 1),
       WRow("all", "transit",  "transit",  "express_bus", "in_vehicle_time_min", 1),
       WRow("all", "access",   "walk",     "walk_access", "time_min",            2),
       WRow("all", "transfer", "transfer", "transfer",    "walk_time_min",       2),
       WRow("all", "transit",  "transit",  "local_bus",   "at_capacity",         3),
       WRow("biz", "transit",  "transit",  "local_bus",   "in_vehicle_time_min", 1),
       WRow("biz", "transfer", "transfer", "transfer",    "transfer_penalty",    1),
       WRow("all", "egress",   "walk",     "walk_egress", "time_min",            2),
       WRow("all", "egress",   "walk",     "walk_egress", "preferred_delay_min", 1),
       WRow("all", "transit",  "transit",  "express_bus", "dist",                1),
       WRow("all", "access",   "PNR",      "drive_access", "time_min",           1),
       WRow("biz", "access",   "walk",     "walk_access", "time_min",            2),
       WRow("biz", "egress",   "PNR",      "drive_egress", "time_min",           1),
       WRow("all", "access",   "walk",     "walk_access", "preferred_delay_min", 1),
       WRow("biz", "access",   "walk",     "walk_access", "preferred_delay_min", 1),
       WRow("biz", "egress",   "PNR",      "drive_egress", "preferred_delay_min", 1),
       WRow("all", "transfer", "transfer", "transfer",    "dist",                1),
       WRow("all", "transfer", "transfer", "transfer",    "transfer_penalty",    2),
       WRow("all", "transit",  "transit",  "local_bus",   "overcap",             1),
       WRow("all", "access",   "walk",     "bike_access", "time_min",            1) >>

\* The rows of s at the positions in S, in the order of s.
RECURSIVE SubSeqAt(_, _, _)
SubSeqAt(s, S, i) ==
    IF i > Len(s) THEN << >>
    ELSE IF i \in S THEN << s[i] >> \o SubSeqAt(s, S, i + 1)
         ELSE SubSeqAt(s, S, i + 1)

SelectRows(s, S) == SubSeqAt(s, S, 1)

Range(s) == { s[i] : i \in DOMAIN s }

\* The (user_class, demand_mode_type, demand_mode) rows a demand file can hold.
DemandCombos ==
    { [user_class |-> "all", demand_mode_type |-> "access",  demand_mode |-> "walk"],
      [user_class |-> "all", demand_mode_type |-> "transit", demand_mode |-> "transit"],
      [user_class |-> "biz", demand_mode_type |-> "transit", demand_mode |-> "transit"],
      [user_class |-> "biz", demand_mode_type |-> "egress",  demand_mode |-> "PNR"] }

(***************************************************************************)
(* routes.add_numeric_mode_id (fasttrips/Route.py)                         *)
(***************************************************************************)
\* The numeric code of a supply mode.
ModeNum(sm) ==
    CASE sm = "transfer"    -> 1
      [] sm = "local_bus"   -> 2
      [] sm = "express_bus" -> 3
      [] sm = "walk_access" -> 101
      [] sm = "bike_access" -> 111
      [] sm = "walk_egress" -> 201
      [] sm = "drive_access" -> 301
      [] sm = "drive_egress" -> 401
      [] OTHER              -> NaN

add_numeric_mode_id(df) ==
    [ i \in DOMAIN df |-> [ df[i] EXCEPT !.supply_mode_num = ModeNum(df[i].supply_mode) ] ]

(***************************************************************************)
(* pandas operations used by verify_weight_config                          *)
(***************************************************************************)
KeyOf(r) == << StrRank(r.user_class), StrRank(r.demand_mode_type),
               StrRank(r.demand_mode), StrRank(r.supply_mode),
               StrRank(r.weight_name) >>

RECURSIVE TupleLess(_, _, _)
TupleLess(a, b, i) ==
    IF i > Len(a) THEN FALSE
    ELSE IF a[i] # b[i] THEN a[i] < b[i]
         ELSE TupleLess(a, b, i + 1)

KeyLess(r1, r2) == TupleLess(KeyOf(r1), KeyOf(r2), 1)

\* Insert r after every row whose key is not greater (a stable sort).
RECURSIVE InsertSorted(_, _)
InsertSorted(s, r) ==
    IF s = << >> THEN << r >>
    ELSE IF KeyLess(r, s[1]) THEN << r >> \o s
         ELSE << s[1] >> \o InsertSorted(Tail(s), r)

RECURSIVE SortFrom(_, _)
SortFrom(s, acc) ==
    IF s = << >> THEN acc ELSE SortFrom(Tail(s), InsertSorted(acc, s[1]))

\* DataFrame.sort_values(by=[user_class, demand_mode_type, demand_mode, supply_mode, weight_name])
sort_values(df) == SortFrom(df, << >>)

\* DataFrame.drop_duplicates: the first occurrence of each row, in order.
RECURSIVE DropDup(_, _)
DropDup(s, seen) ==
    IF s = << >> THEN << >>
    ELSE IF s[1] \in seen THEN DropDup(Tail(s), seen)
         ELSE << s[1] >> \o DropDup(Tail(s), seen \cup { s[1] })

drop_duplicates(df) == DropDup(df, {})

(***************************************************************************)
(* verify_weight_config                                                    *)
(***************************************************************************)
\* explicit_missing with the join made on (user_class, demand_mode_type) alone.
explicit_missing_NoDemandMode(modes_df, W) ==
    { m \in modes_df :
        ~ \E i \in DOMAIN W : /\ W[i].user_class = m.user_class
                              /\ W[i].demand_mode_type = m.demand_mode_type
                              /\ W[i].supply_mode # Null }

\* Left join of modes_df with the weights on (user_class, demand_mode_type,
\* demand_mode): the rows of modes_df whose supply_mode is null afterwards.
explicit_missing(modes_df, W) ==
    { m \in modes_df :
        ~ \E i \in DOMAIN W : /\ W[i].user_class = m.user_class
                              /\ W[i].demand_mode_type = m.demand_mode_type
                              /\ W[i].demand_mode = m.demand_mode
                              /\ W[i].supply_mode # Null }

\* One (user_class, transfer, transfer, transfer) row per distinct user class.
implicit_df(modes_df) ==
    { [user_class |-> m.user_class, demand_mode_type |-> "transfer",
       demand_mode |-> "transfer", supply_mode |-> "transfer"] : m \in modes_df }

\* implicit_missing with the join made without user_class.
implicit_missing_AnyClass(modes_df, W) ==
    { m \in implicit_df(modes_df) :
        ~ \E i \in DOMAIN W : /\ W[i].demand_mode_type = m.demand_mode_type
                              /\ W[i].demand_mode = m.demand_mode
                              /\ W[i].supply_mode = m.supply_mode
                              /\ W[i].weight_name # Null }

\* Left join of implicit_df with the weights on the four keys: the rows whose
\* weight_name is null afterwards.
implicit_missing(modes_df, W) ==
    { m \in implicit_df(modes_df) :
        ~ \E i \in DOMAIN W : /\ W[i].user_class = m.user_class
                              /\ W[i].demand_mode_type = m.demand_mode_type
                              /\ W[i].demand_mode = m.demand_mode
                              /\ W[i].supply_mode = m.supply_mode
                              /\ W[i].weight_name # Null }

IsAtCapacity(r) == r.weight_name = "at_capacity"
at_capacity(W) == SelectSeq(W, IsAtCapacity)

IsTransit(r) == r.demand_mode_type = STATE_MODE_TRIP
AtCapacityRow(r) ==
    WRow(r.user_class, r.demand_mode_type, r.demand_mode, r.supply_mode,
         "at_capacity", HUGE_COST)
ToAtCapacity(s) == [ i \in DOMAIN s |-> AtCapacityRow(s[i]) ]

KeyColumns(r) ==
    [user_class |-> r.user_class, demand_mode |-> r.demand_mode,
     demand_mode_type |-> r.demand_mode_type, supply_mode |-> r.supply_mode]
ProjectKeys(s) == [ i \in DOMAIN s |-> KeyColumns(s[i]) ]

\* transit_weights_df without drop_duplicates.
transit_weights_df_NoDropDuplicates(W) ==
    ToAtCapacity(ProjectKeys(SelectSeq(W, IsTransit)))

\* The at_capacity rows to add: one per distinct key of the transit rows.
transit_weights_df(W) ==
    ToAtCapacity(drop_duplicates(ProjectKeys(SelectSeq(W, IsTransit))))

\* ErrorReport stopping at the first failing check.
ErrorReport_FailFast(modes_df, W, capacity_constraint) ==
    IF explicit_missing(modes_df, W) # {}
        THEN << [section |-> "explicit", rows |-> explicit_missing(modes_df, W)] >>
    ELSE IF implicit_missing(modes_df, W) # {}
        THEN << [section |-> "implicit", rows |-> implicit_missing(modes_df, W)] >>
    ELSE IF capacity_constraint /\ Len(at_capacity(W)) > 0
        THEN << [section |-> "at_capacity", rows |-> Range(at_capacity(W))] >>
    ELSE << >>

\* ErrorReport without the section on at_capacity rows found in the table.
ErrorReport_NoConflict(modes_df, W, capacity_constraint) ==
    (IF explicit_missing(modes_df, W) # {}
        THEN << [section |-> "explicit", rows |-> explicit_missing(modes_df, W)] >>
        ELSE << >>)
    \o
    (IF implicit_missing(modes_df, W) # {}
        THEN << [section |-> "implicit", rows |-> implicit_missing(modes_df, W)] >>
        ELSE << >>)

\* The sections appended to error_str, in the order the code appends them.
ErrorReport(modes_df, W, capacity_constraint) ==
    (IF explicit_missing(modes_df, W) # {}
        THEN << [section |-> "explicit", rows |-> explicit_missing(modes_df, W)] >>
        ELSE << >>)
    \o
    (IF implicit_missing(modes_df, W) # {}
        THEN << [section |-> "implicit", rows |-> implicit_missing(modes_df, W)] >>
        ELSE << >>)
    \o
    (IF capacity_constraint /\ Len(at_capacity(W)) > 0
        THEN << [section |-> "at_capacity", rows |-> Range(at_capacity(W))] >>
        ELSE << >>)

\* WithCapacityWeights adding the rows whether or not at_capacity rows exist.
WithCapacityWeights_Always(W, capacity_constraint) ==
    IF capacity_constraint
        THEN sort_values(W \o transit_weights_df(W))
        ELSE W

\* PathSet.WEIGHTS_DF after the capacity_constraint block.
WithCapacityWeights(W, capacity_constraint) ==
    IF capacity_constraint /\ Len(at_capacity(W)) = 0
        THEN sort_values(W \o transit_weights_df(W))
        ELSE W

\* DataFrame.to_csv(columns=[...], sep=" ", index=False): a line per row after
\* the line of column names.
CsvColumns == << "user_class", "demand_mode_type", "demand_mode",
                 "supply_mode_num", "weight_name", "weight_value" >>
\* CsvLine with demand_mode written before demand_mode_type.
CsvLine_DemandModeFirst(r) ==
    << r.user_class, r.demand_mode, r.demand_mode_type,
       r.supply_mode_num, r.weight_name, r.weight_value >>

CsvLine(r) == << r.user_class, r.demand_mode_type, r.demand_mode,
                 r.supply_mode_num, r.weight_name, r.weight_value >>
to_csv(df) ==
    [ sep |-> " ",
      lines |-> << CsvColumns >> \o [ i \in DOMAIN df |-> CsvLine(df[i]) ] ]

\* A call of verify_weight_config with capacity_constraint on has succeeded
\* in this process, up to and including the call c.
Enforced(c) == IF c.op = "verify_weight_config" THEN c.enforced ELSE FALSE

verify_weight_config(modes_df, capacity_constraint) ==
    /\ pc \in { "setup", "ready" }
    /\ UNCHANGED << trip_list_df, pathset_paths_df, pathset_links_df, STOCH_DISPERSION,
                    nan_group_sum, drive_df, transfers_df, pathset >>
    /\ call' = [ op |-> "verify_weight_config", modes_df |-> modes_df,
                 capacity_constraint |-> capacity_constraint,
                 WEIGHTS_DF |-> WEIGHTS_DF, weights_file |-> weights_file,
                 was_enforced |-> Enforced(call),
                 enforced |-> \/ Enforced(call)
                              \/ /\ capacity_constraint
                                 /\ Len(ErrorReport(modes_df, WEIGHTS_DF, capacity_constraint)) = 0 ]
    /\ error_str' = ErrorReport(modes_df, WEIGHTS_DF, capacity_constraint)
    /\ IF Len(error_str') > 0
          THEN /\ WEIGHTS_DF' = WithCapacityWeights(WEIGHTS_DF, capacity_constraint)
               /\ pc' = "exited"
               /\ exit_status' = 2
               /\ UNCHANGED weights_file
          ELSE /\ WEIGHTS_DF' =
                     add_numeric_mode_id(WithCapacityWeights(WEIGHTS_DF, capacity_constraint))
               /\ weights_file' = to_csv(WEIGHTS_DF')
               /\ pc' = "ready"
               /\ UNCHANGED exit_status

(***************************************************************************)
(* Inputs of calculate_cost: the demand, the network tables and the paths  *)
(* the search engine returns over them.  Zones are 1 and 2, stops 11..13;  *)
(* person_id is left out, trip_list_id_num identifying the trip row.       *)
(***************************************************************************)
MaxPaths == 3          \* paths of the first trip
Dispersions == { 1, 2 }       \* the configured STOCH_DISPERSION
SimIterations == { 0, 1 }     \* simulation_iteration: the first and a later one

TripList ==
    << [trip_list_id_num |-> 1, user_class |-> "all", access_mode |-> "walk",
        egress_mode |-> "walk", transit_mode |-> "transit",
        time_target |-> "arrival", departure_time |-> 15, arrival_time |-> 60],
       [trip_list_id_num |-> 2, user_class |-> "biz", access_mode |-> "walk",
        egress_mode |-> "PNR", transit_mode |-> "transit",
        time_target |-> "departure", departure_time |-> 15, arrival_time |-> 60] >>

\* The user_class, demand_mode_type and demand_mode combinations found in the
\* demand: the modes_df the weights are verified against before a simulation.
demand_modes(trips) ==
    UNION { { [user_class |-> trips[i].user_class, demand_mode_type |-> STATE_MODE_ACCESS,
               demand_mode |-> trips[i].access_mode],
              [user_class |-> trips[i].user_class, demand_mode_type |-> STATE_MODE_EGRESS,
               demand_mode |-> trips[i].egress_mode],
              [user_class |-> trips[i].user_class, demand_mode_type |-> STATE_MODE_TRIP,
               demand_mode |-> trips[i].transit_mode] } : i \in DOMAIN trips }

\* TAZ.WALK_MODE_NUMS, TAZ.BIKE_MODE_NUMS, TAZ.DRIVE_MODE_NUMS,
\* TAZ.ACCESS_MODE_NUMS and TAZ.EGRESS_MODE_NUMS (fasttrips/TAZ.py).
WALK_MODE_NUMS   == { 101, 201 }
BIKE_MODE_NUMS   == { 111, 211 }
DRIVE_MODE_NUMS  == { 301, 401 }
ACCESS_MODE_NUMS == { 101, 111, 301 }
EGRESS_MODE_NUMS == { 201, 211, 401 }

\* Walk and drive access/egress tables, indexed by (taz_num, supply_mode_num,
\* stop_id_num), with their numeric columns.
walk_df ==
    << [taz_num |-> 1, supply_mode_num |-> 101, stop_id_num |-> 11,
        nums |-> [time_min |-> 5, dist |-> 1]],
       [taz_num |-> 2, supply_mode_num |-> 201, stop_id_num |-> 12,
        nums |-> [time_min |-> 3, dist |-> 1]] >>

DriveTable ==
    << [taz_num |-> 2, supply_mode_num |-> 401, stop_id_num |-> 13,
        nums |-> [time_min |-> 4]] >>

\* Stop-to-stop transfers with their numeric columns.
TransferTable ==
    << [from_stop_id_num |-> 12, to_stop_id_num |-> 13,
        nums |-> [dist |-> 1, transfer_penalty |-> NaN]],
       [from_stop_id_num |-> 13, to_stop_id_num |-> 13,
        nums |-> [dist |-> 5, transfer_penalty |-> 3]] >>

\* Assignment.MSA_RESULTS
MSA_RESULTS == FALSE

Link(linkmode, mode, A, B, A_time, B_time, linktime, board, alight, overcap, missed_xfer, bump_iter) ==
    [linkmode |-> linkmode, mode |-> mode, A_id_num |-> A, B_id_num |-> B,
     pf_A_time |-> A_time, pf_B_time |-> B_time, pf_linktime |-> linktime,
     board_time |-> board, alight_time |-> alight, overcap |-> overcap,
     missed_xfer |-> missed_xfer, bump_iter |-> bump_iter]

acc    == Link("access",   "walk_access", 1, 11, 20, 25, 5, NaN, NaN, NaN, 0, -1)
bus    == Link("transit",  "local_bus",   11, 12, 25, 48, 23, 28, 48, -1, 0, -1)
exp    == Link("transit",  "express_bus", 11, 12, 25, 40, 15, 26, 40, 0, 0, -1)
missed == Link("transit",  "local_bus",   13, 12, 50, 58, 8, 49, 58, -1, 1, -1)
bumped == Link("transit",  "local_bus",   11, 12, 25, 48, 23, 28, 48, 2, 0, 0)
xfer   == Link("transfer", "transfer",    12, 13, 48, 50, 2, NaN, NaN, NaN, 0, -1)
xfer0  == Link("transfer", "transfer",    12, 12, 48, 48, 0, NaN, NaN, NaN, 0, -1)
egr    == Link("egress",   "walk_egress", 12, 2, 48, 51, 3, NaN, NaN, NaN, 0, -1)
far    == Link("access",   "walk_access", 1, 13, 20, 29, 9, NaN, NaN, NaN, 0, -1)
early  == Link("access",   "walk_access", 1, 11, 10, 15, 5, NaN, NaN, NaN, 0, -1)
late   == Link("egress",   "walk_egress", 12, 2, 62, 65, 3, NaN, NaN, NaN, 0, -1)
bike   == Link("access",   "bike_access", 1, 11, 20, 25, 5, NaN, NaN, NaN, 0, -1)
pnr    == Link("egress",   "drive_egress", 13, 2, 50, 54, 4, NaN, NaN, NaN, 0, -1)
pnr12  == Link("egress",   "drive_egress", 12, 2, 48, 52, 4, NaN, NaN, NaN, 0, -1)
full   == Link("transit",  "local_bus",   13, 12, 50, 58, 8, 52, 58, 0, 0, -1)
xfer13 == Link("transfer", "transfer",    13, 13, 50, 50, 0, NaN, NaN, NaN, 0, -1)
back   == Link("transfer", "transfer",    13, 12, 50, 52, 2, NaN, NaN, NaN, 0, -1)
stray  == Link("walk",     "transfer",    12, 13, 48, 50, 2, NaN, NaN, NaN, 0, -1)

\* The paths the search engine can return for a trip.
PathKinds ==
    << << acc, bus, egr >>,
       << acc, exp, egr >>,
       << acc, bumped, egr >>,
       << acc, bus, xfer, missed, egr >>,
       << bus, xfer0, missed >>,
       << far, bus >>,
       << exp >> >>

\* The link rows of path pathnum of a trip, numbered from 0.
PathLinks(trip, pathnum, kind) ==
    [ i \in DOMAIN PathKinds[kind] |->
        PathKinds[kind][i] @@
        [trip_list_id_num |-> trip, pathnum |-> pathnum, linknum |-> i - 1] ]

RECURSIVE Flatten(_)
Flatten(ss) == IF ss = << >> THEN << >> ELSE ss[1] \o Flatten(Tail(ss))

\* The kinds of the first trip's paths, in non-decreasing order (the order
\* of the path rows changes nothing in calculate_cost).
PathChoices ==
    UNION { { ks \in [1..n -> 1..Len(PathKinds)] :
                \A i \in 1..(n - 1) : ks[i] <= ks[i + 1] } : n \in 1..MaxPaths }

\* The kinds of the second trip's only path.
SecondTripKinds == { 1, 5 }

\* The link and path tables for the first trip's paths ks and one path of
\* kind k2 of the second trip.
LinksOf(ks, k2) ==
    Flatten([ p \in DOMAIN ks |-> PathLinks(1, p, ks[p]) ]) \o PathLinks(2, 1, k2)

PathsOf(ks, k2) ==
    [ p \in DOMAIN ks |-> [trip_list_id_num |-> 1, pathnum |-> p] ]
    \o << [trip_list_id_num |-> 2, pathnum |-> 1] >>

\* The search engine hands the simulation the path and link tables of a batch.
generate_pathsets(ks, k2) ==
    /\ pc = "ready"
    /\ pathset_paths_df' = PathsOf(ks, k2)
    /\ pathset_links_df' = LinksOf(ks, k2)
    /\ pc' = "simulation"
    /\ call' = [ op |-> "generate_pathsets" ]
    /\ UNCHANGED << WEIGHTS_DF, weights_file, exit_status, error_str, trip_list_df,
                    STOCH_DISPERSION, nan_group_sum, drive_df, transfers_df, pathset >>

\* The paths of the var_value study: every source of a variable's value and
\* every way of having none.  Kinds 1..9 and 13 are paths of the first trip,
\* kinds 10..12 of the second; kind 13 has a link of no link mode.
MaxVarPaths == 2       \* paths of the first trip in a var_value batch

VarPathKinds ==
    << << acc, bus, egr >>,
       << early, bumped, late >>,
       << acc, bus, xfer0, full, egr >>,
       << acc, bus, xfer, full, egr >>,
       << acc, full, xfer13, bus, egr >>,
       << bike, bus, egr >>,
       << far, bus, egr >>,
       << acc, exp, egr >>,
       << acc, full, back, bus, egr >>,
       << acc, bus, pnr12 >>,
       << early, bus, xfer, pnr >>,
       << acc, bus, xfer0, pnr >>,
       << acc, bus, stray, full, egr >> >>

FirstTripVarKinds == (1..9) \cup { 13 }
SecondTripVarKinds == { 10, 11, 12 }

VarPathChoices ==
    UNION { { ks \in [1..n -> FirstTripVarKinds] :
                \A i \in 1..(n - 1) : ks[i] <= ks[i + 1] } : n \in 1..MaxVarPaths }

\* bumpstop_boarded as the simulation sets it: 1 on the link of a traveler
\* who boarded a vehicle that then had no room left, 0 on every other link.
WithBoarded(l) == l @@ [ bumpstop_boarded |-> IF l.overcap = 0 THEN 1 ELSE 0 ]

VarPathLinks(trip, pathnum, kind, boarded_known) ==
    [ i \in DOMAIN VarPathKinds[kind] |->
        (IF boarded_known THEN WithBoarded(VarPathKinds[kind][i]) ELSE VarPathKinds[kind][i])
        @@ [trip_list_id_num |-> trip, pathnum |-> pathnum, linknum |-> i - 1] ]

VarLinksOf(ks, k2, boarded_known) ==
    Flatten([ p \in DOMAIN ks |-> VarPathLinks(1, p, ks[p], boarded_known) ])
    \o VarPathLinks(2, 1, k2, boarded_known)

\* The simulation hands calculate_cost the tables of a batch, the link table
\* with a bumpstop_boarded column once a bump wait has been recorded.
simulate_pathsets(ks, k2, boarded_known) ==
    /\ pc = "ready"
    /\ pathset_paths_df' = PathsOf(ks, k2)
    /\ pathset_links_df' = VarLinksOf(ks, k2, boarded_known)
    /\ pc' = "simulation"
    /\ call' = [ op |-> "simulate_pathsets" ]
    /\ UNCHANGED << WEIGHTS_DF, weights_file, exit_status, error_str, trip_list_df,
                    STOCH_DISPERSION, nan_group_sum, drive_df, transfers_df, pathset >>

(***************************************************************************)
(* calculate_cost: link x weight expansion and var_value resolution        *)
(***************************************************************************)
HasColumn(df, c) == \E i \in DOMAIN df : c \in DOMAIN df[i]

DropColumns(df, cols) ==
    [ i \in DOMAIN df |-> [ c \in (DOMAIN df[i]) \ cols |-> df[i][c] ] ]

\* The columns of an earlier call are removed from the caller's tables.
StripPaths(paths) ==
    IF HasColumn(paths, "sim_cost")
        THEN DropColumns(paths, { "sim_cost", "probability", "logsum", "logsum_component" })
        ELSE paths

\* StripLinks leaving the link table as it is.
StripLinks_Keep(paths, links) == links

StripLinks(paths, links) ==
    IF HasColumn(paths, "sim_cost") THEN DropColumns(links, { "sim_cost" }) ELSE links

TripRows(trips, id) == { x \in Range(trips) : x.trip_list_id_num = id }

\* Left join with the trip list: a column of the link's trip, Null without one.
TripColumn(trips, l, c) ==
    IF TripRows(trips, l.trip_list_id_num) = {} THEN Null
    ELSE (CHOOSE x \in TripRows(trips, l.trip_list_id_num) : TRUE)[c]

DemandMode(trips, l) ==
    CASE l.linkmode = STATE_MODE_ACCESS   -> TripColumn(trips, l, "access_mode")
      [] l.linkmode = STATE_MODE_EGRESS   -> TripColumn(trips, l, "egress_mode")
      [] l.linkmode = STATE_MODE_TRIP     -> TripColumn(trips, l, "transit_mode")
      [] l.linkmode = STATE_MODE_TRANSFER -> "transfer"
      [] OTHER                            -> Null

\* BumpIter reading the column as given in every iteration.
BumpIter_AsGiven(l, simulation_iteration) == l.bump_iter

\* bump_iter as calculate_cost reads it.
BumpIter(l, simulation_iteration) ==
    IF simulation_iteration = 0 THEN -1 ELSE l.bump_iter

pathset_links_cost_df(links, trips, simulation_iteration) ==
    [ i \in DOMAIN links |->
        [ user_class  |-> TripColumn(trips, links[i], "user_class"),
          demand_mode |-> DemandMode(trips, links[i]),
          li          |-> i ]
        @@ [ links[i] EXCEPT !.bump_iter = BumpIter(links[i], simulation_iteration) ] ]

missing_demand_mode(lc) == Cardinality({ i \in DOMAIN lc : lc[i].demand_mode = Null })

\* WeightMatches without the supply mode.
WeightMatches_AnySupplyMode(l, w) ==
    /\ l.user_class  = w.user_class
    /\ l.linkmode    = w.demand_mode_type
    /\ l.demand_mode = w.demand_mode

WeightMatches(l, w) ==
    /\ l.user_class  = w.user_class
    /\ l.linkmode    = w.demand_mode_type
    /\ l.demand_mode = w.demand_mode
    /\ l.mode        = w.supply_mode

\* Inner join of the links with the weights: one row per (link, matching
\* weight row), li and wi being the positions of the two rows.
JoinWeights(lc, W) ==
    { [ wi |-> j ] @@ lc[i] @@ W[j] :
        <<i, j>> \in { x \in (DOMAIN lc) \X (DOMAIN W) : WeightMatches(lc[x[1]], W[x[2]]) } }

NumericColumns(df) == UNION { DOMAIN df[i].nums : i \in DOMAIN df }

\* LinkDfA taking the zone as A whatever the supply mode.
LinkDfA_Zone(x) == x.taz_num

\* A_id_num and B_id_num of a row of an access/egress table.
LinkDfA(x) ==
    IF x.supply_mode_num \in EGRESS_MODE_NUMS THEN x.stop_id_num
    ELSE IF x.supply_mode_num \in ACCESS_MODE_NUMS THEN x.taz_num ELSE -1

LinkDfB(x) ==
    IF x.supply_mode_num \in EGRESS_MODE_NUMS THEN x.taz_num
    ELSE IF x.supply_mode_num \in ACCESS_MODE_NUMS THEN x.stop_id_num ELSE -1

\* The assertion on a walk | drive table that is not empty.
link_df_assert(link_df) ==
    Len(link_df) = 0 \/ \A i \in DOMAIN link_df : LinkDfA(link_df[i]) >= 0

\* The positions of the rows of a walk | drive table that the left merge
\* pairs with a row of the expansion; a table that is empty is not merged.
AccEgrMatch(r, link_df) ==
    { i \in DOMAIN link_df : /\ LinkDfA(link_df[i]) = r.A_id_num
                             /\ link_df[i].supply_mode_num = r.supply_mode_num
                             /\ LinkDfB(link_df[i]) = r.B_id_num }

\* MergeIdx of a merge that keeps the first match only.
MergeIdx_FirstMatch(matches) ==
    IF matches = {} THEN { 0 } ELSE { CHOOSE i \in matches : \A k \in matches : i <= k }

\* A left merge gives a row one copy for each row of the right table it
\* matches, and one copy with nulls, position 0, when it matches none.
MergeIdx(matches) == IF matches = {} THEN { 0 } ELSE matches

\* One pass of the walk | drive loop over a row whose var_value is v and
\* that the merge paired with row j of the table.
AccEgrStep(v, r, link_df, mode_list, j) ==
    IF Len(link_df) = 0 THEN v
    ELSE IF r.weight_name \in NumericColumns(link_df) /\ r.supply_mode_num \in mode_list
         THEN IF j = 0 THEN NaN ELSE link_df[j].nums[r.weight_name]
         ELSE v

\* PreferredDelay measuring the egress delay of an arrival trip from the
\* preferred time to the achieved one.
PreferredDelay_AchievedLessPreferred(v, r, trips) ==
    IF r.weight_name # "preferred_delay_min" THEN v
    ELSE CASE r.linkmode = STATE_MODE_ACCESS /\ TripColumn(trips, r, "time_target") = "arrival"
                -> 0
           [] r.linkmode = STATE_MODE_EGRESS /\ TripColumn(trips, r, "time_target") = "arrival"
                -> r.pf_B_time - TripColumn(trips, r, "arrival_time")
           [] r.linkmode = STATE_MODE_ACCESS /\ TripColumn(trips, r, "time_target") = "departure"
                -> r.pf_A_time - TripColumn(trips, r, "departure_time")
           [] r.linkmode = STATE_MODE_EGRESS /\ TripColumn(trips, r, "time_target") = "departure"
                -> 0
           [] OTHER -> v

PreferredDelay(v, r, trips) ==
    IF r.weight_name # "preferred_delay_min" THEN v
    ELSE CASE r.linkmode = STATE_MODE_ACCESS /\ TripColumn(trips, r, "time_target") = "arrival"
                -> 0
           [] r.linkmode = STATE_MODE_EGRESS /\ TripColumn(trips, r, "time_target") = "arrival"
                -> TripColumn(trips, r, "arrival_time") - r.pf_B_time
           [] r.linkmode = STATE_MODE_ACCESS /\ TripColumn(trips, r, "time_target") = "departure"
                -> r.pf_A_time - TripColumn(trips, r, "departure_time")
           [] r.linkmode = STATE_MODE_EGRESS /\ TripColumn(trips, r, "time_target") = "departure"
                -> 0
           [] OTHER -> v

AccEgrVarValue(r, trips) ==
    PreferredDelay(
        AccEgrStep(AccEgrStep(NaN, r, walk_df, WALK_MODE_NUMS, r.mi[1]),
                   r, drive_df, DRIVE_MODE_NUMS, r.mi[2]),
        r, trips)

overcap_col(msa_known) ==
    IF MSA_RESULTS /\ msa_known THEN "msa_overcap" ELSE "overcap"

\* AtCapacityFlag without the look at bumpstop_boarded.
AtCapacityFlag_IgnoreBoarded(r, boarded_known, msa_known) ==
    IF r[overcap_col(msa_known)] >= 0 THEN 1 ELSE 0

\* The at_capacity column of a transit row.
AtCapacityFlag(r, boarded_known, msa_known) ==
    IF boarded_known
        THEN IF r[overcap_col(msa_known)] >= 0 /\ r.bumpstop_boarded # 1
                THEN 1 ELSE 0
        ELSE IF r[overcap_col(msa_known)] >= 0 THEN 1 ELSE 0

ClipOvercap(v) == IF v # NaN /\ v < 0 THEN 0 ELSE v

TripVarValue(r, boarded_known, msa_known) ==
    CASE r.weight_name = "in_vehicle_time_min" -> r.alight_time - r.board_time
      [] r.weight_name = "wait_time_min"       -> r.board_time - r.pf_A_time
      [] r.weight_name = "at_capacity"         -> AtCapacityFlag(r, boarded_known, msa_known)
      [] r.weight_name = "overcap"
            -> ClipOvercap(r[overcap_col(msa_known)])
      [] OTHER                                 -> NaN

TransferMatch(r) ==
    { i \in DOMAIN transfers_df : /\ transfers_df[i].from_stop_id_num = r.A_id_num
                                  /\ transfers_df[i].to_stop_id_num = r.B_id_num }

TransferColumn(r) ==
    IF r.weight_name \in NumericColumns(transfers_df)
        THEN IF r.mi[3] = 0 THEN NaN ELSE transfers_df[r.mi[3]].nums[r.weight_name]
        ELSE IF r.weight_name = "walk_time_min" THEN r.pf_linktime ELSE NaN

\* ZeroWalk leaving the values of a zero-walk transfer as they are.
ZeroWalk_AsConfigured(v, r) == v

ZeroWalk(v, r) ==
    IF r.weight_name # "transfer_penalty" /\ r.A_id_num = r.B_id_num THEN 0 ELSE v

\* TransferPenaltyDefault for zero-walk transfers only.
TransferPenaltyDefault_ZeroWalkOnly(v, r) ==
    IF r.weight_name = "transfer_penalty" /\ v = NaN /\ r.A_id_num = r.B_id_num THEN 1 ELSE v

TransferPenaltyDefault(v, r) ==
    IF r.weight_name = "transfer_penalty" /\ v = NaN THEN 1 ELSE v

TransferVarValue(r) == TransferPenaltyDefault(ZeroWalk(TransferColumn(r), r), r)

IsAccEgr(r) == r.linkmode \in { STATE_MODE_ACCESS, STATE_MODE_EGRESS }

\* var_value of a row of the expansion; rows of no category are in none of
\* the three parts.
VarValue(r, trips, boarded_known, msa_known) ==
    CASE IsAccEgr(r)                       -> AccEgrVarValue(r, trips)
      [] r.linkmode = STATE_MODE_TRIP      -> TripVarValue(r, boarded_known, msa_known)
      [] r.linkmode = STATE_MODE_TRANSFER  -> TransferVarValue(r)

InCategory(r) ==
    r.linkmode \in { STATE_MODE_ACCESS, STATE_MODE_EGRESS, STATE_MODE_TRIP, STATE_MODE_TRANSFER }

\* The rows of the walk, drive and transfer table that the left merges of its
\* part pair with a row of the expansion: mi holds the three positions, 0
\* where the part has no such merge or the merge found no row.
MergeMatches(r) ==
    CASE IsAccEgr(r) ->
            MergeIdx(IF Len(walk_df) = 0 THEN {} ELSE AccEgrMatch(r, walk_df))
                \X MergeIdx(IF Len(drive_df) = 0 THEN {} ELSE AccEgrMatch(r, drive_df))
                \X { 0 }
      [] r.linkmode = STATE_MODE_TRIP     -> { << 0, 0, 0 >> }
      [] r.linkmode = STATE_MODE_TRANSFER -> { 0 } \X { 0 } \X MergeIdx(TransferMatch(r))

MergedParts(rows) == UNION { { r @@ [ mi |-> m ] : m \in MergeMatches(r) } : r \in rows }

\* cost_accegr_df, cost_trip_df and cost_transfer_df put back together, each
\* row with its var_value.
ResolvedCostDf(lc, W, trips) ==
    { r @@ [ var_value |->
                VarValue(r, trips, HasColumn(lc, "bumpstop_boarded"), HasColumn(lc, "msa_overcap")) ] :
        r \in MergedParts({ x \in JoinWeights(lc, W) : InCategory(x) }) }

\* The rows of a category that are left without a var_value.
missing_accegr_costs(cost) == { r \in cost : IsAccEgr(r) /\ r.var_value = NaN }
missing_trip_costs(cost) == { r \in cost : r.linkmode = STATE_MODE_TRIP /\ r.var_value = NaN }
missing_transfer_costs(cost) ==
    { r \in cost : r.linkmode = STATE_MODE_TRANSFER /\ r.var_value = NaN }

\* The three "Missing %d out of %d ... var_value values" messages, in the
\* order they are logged.
error_msgs(cost) ==
    << [ category |-> "access/egress",
         missing  |-> Cardinality(missing_accegr_costs(cost)),
         total    |-> Cardinality({ r \in cost : IsAccEgr(r) }) ],
       [ category |-> "transit trip",
         missing  |-> Cardinality(missing_trip_costs(cost)),
         total    |-> Cardinality({ r \in cost : r.linkmode = STATE_MODE_TRIP }) ],
       [ category |-> "transfer",
         missing  |-> Cardinality(missing_transfer_costs(cost)),
         total    |-> Cardinality({ r \in cost : r.linkmode = STATE_MODE_TRANSFER }) ] >>

\* missing_costs stopping at the first category.
missing_costs_AccEgrOnly(cost) == missing_accegr_costs(cost)

missing_costs(cost) ==
    missing_accegr_costs(cost) \cup missing_trip_costs(cost) \cup missing_transfer_costs(cost)

(***************************************************************************)
(* calculate_cost: costs, logsums and probabilities                        *)
(***************************************************************************)
\* linkcost = weight x variable, then the two overrides in the code's order.
Product(r) == r.var_value * r.weight_value

\* MissedXferOverride adding the penalty to the product.
MissedXferOverride_Added(c, r) == IF r.missed_xfer = 1 THEN c + HUGE_COST ELSE c

MissedXferOverride(c, r) == IF r.missed_xfer = 1 THEN HUGE_COST ELSE c

\* BumpIterOverride with the cost the path search gives a bumped link.
BumpIterOverride_ExperiencedCost(c, r) ==
    IF r.bump_iter >= 0 THEN BUMP_EXPERIENCED_COST ELSE c

BumpIterOverride(c, r) == IF r.bump_iter >= 0 THEN HUGE_COST ELSE c

RowCost(r) == BumpIterOverride(MissedXferOverride(Product(r), r), r)

WithRowCost(cost) == { r @@ [ sim_cost |-> RowCost(r) ] : r \in cost }

RECURSIVE SumSimCost(_)
SumSimCost(rows) ==
    IF rows = {} THEN 0
    ELSE LET r == CHOOSE x \in rows : TRUE
         IN  r.sim_cost + SumSimCost(rows \ { r })

LinkKey(r) == << r.trip_list_id_num, r.pathnum, r.linknum >>
PathKey(r) == << r.trip_list_id_num, r.pathnum >>

\* groupby (trip_list_id_num, pathnum, linknum) . sum
cost_link_df(cost) ==
    { [ trip_list_id_num |-> k[1], pathnum |-> k[2], linknum |-> k[3],
        sim_cost |-> SumSimCost({ r \in cost : LinkKey(r) = k }) ] :
      k \in { LinkKey(r) : r \in cost } }

\* cost_path_df grouped by trip_list_id_num alone.
cost_path_df_ByTrip(link_costs) ==
    { [ trip_list_id_num |-> k[1], pathnum |-> k[2],
        sim_cost |-> SumSimCost({ r \in link_costs : r.trip_list_id_num = k[1] }) ] :
      k \in { PathKey(r) : r \in link_costs } }

\* groupby (trip_list_id_num, pathnum) . sum of cost_link_df
cost_path_df(link_costs) ==
    { [ trip_list_id_num |-> k[1], pathnum |-> k[2],
        sim_cost |-> SumSimCost({ r \in link_costs : PathKey(r) = k }) ] :
      k \in { PathKey(r) : r \in link_costs } }

\* Left join of a table with grouped costs on the key: sim_cost of the
\* group, NaN for a row that has none.
LinkSimCost(link_costs, l) ==
    IF \E g \in link_costs : LinkKey(g) = LinkKey(l)
        THEN (CHOOSE g \in link_costs : LinkKey(g) = LinkKey(l)).sim_cost
        ELSE NaN

PathSimCost(path_costs, p) ==
    IF \E g \in path_costs : PathKey(g) = PathKey(p)
        THEN (CHOOSE g \in path_costs : PathKey(g) = PathKey(p)).sim_cost
        ELSE NaN

\* pandas.merge gives a column that both frames have, and that is no key,
\* the suffixes _x and _y.
MergeSimCost(row, c) ==
    IF "sim_cost" \in DOMAIN row
        THEN [ x \in ((DOMAIN row) \ { "sim_cost" }) \cup { "sim_cost_x", "sim_cost_y" } |->
                 IF x = "sim_cost_x" THEN row.sim_cost
                 ELSE IF x = "sim_cost_y" THEN c ELSE row[x] ]
        ELSE row @@ [ sim_cost |-> c ]

MergeLinkCost(links, link_costs) ==
    [ i \in DOMAIN links |-> MergeSimCost(links[i], LinkSimCost(link_costs, links[i])) ]

MergePathCost(paths, path_costs) ==
    [ i \in DOMAIN paths |-> MergeSimCost(paths[i], PathSimCost(path_costs, paths[i])) ]

\* numpy.exp(-x) for whole x: the double underflows to 0.0 when x exceeds
\* ExpUnderflow.  A non-negative float is modelled exactly, as the set of the
\* positions s of the one-bits of its binary expansion (the sum of 2^-s),
\* with 2 standing for the base e: zero is {} and exp(-x) is {x}.
ExpUnderflow == 745
DyNaN == { NaN }

ExpNeg(x) == IF x > ExpUnderflow THEN {} ELSE { x }

RECURSIVE DyAddBit(_, _)
DyAddBit(S, e) == IF e \notin S THEN S \cup { e } ELSE DyAddBit(S \ { e }, e - 1)

RECURSIVE DyAdd(_, _)
DyAdd(S, T) ==
    IF T = {} THEN S
    ELSE LET e == CHOOSE x \in T : TRUE IN DyAdd(DyAddBit(S, e), T \ { e })

SetMin(S) == CHOOSE x \in S : \A y \in S : x <= y

\* S < T as numbers: the most significant bit in which they differ is T's.
DyLess(S, T) ==
    /\ S # T
    /\ SetMin((S \ T) \cup (T \ S)) \in T

\* logsum_component without the minus sign of the exponent.
logsum_component_PositiveExponent(dispersion, sim_cost) ==
    IF sim_cost = NaN THEN DyNaN ELSE ExpNeg(0 - (dispersion * sim_cost))

logsum_component(dispersion, sim_cost) ==
    IF sim_cost = NaN THEN DyNaN ELSE ExpNeg(dispersion * sim_cost)

WithLogsumComponent(paths, dispersion) ==
    [ i \in DOMAIN paths |->
        paths[i] @@
        [ logsum_component |-> logsum_component(dispersion, paths[i].sim_cost) ] ]

RECURSIVE SumComponents(_, _)
SumComponents(paths, I) ==
    IF I = {} THEN {}
    ELSE LET i == CHOOSE x \in I : TRUE
         IN  DyAdd(SumComponents(paths, I \ { i }), paths[i].logsum_component)

\* LogsumGroup without the grouping by trip.
LogsumGroup_AllTrips(paths, i) == DOMAIN paths

\* The rows of paths grouped with row i.
LogsumGroup(paths, i) ==
    { j \in DOMAIN paths : paths[j].trip_list_id_num = paths[i].trip_list_id_num }

\* The sum pandas gives a group of nothing but NaN: NaN before pandas 0.22,
\* 0 from then on.
AllNaNSums == { DyNaN, {} }

\* groupby (trip_list_id_num) . sum of logsum_component: NaN components are
\* skipped, and a group of nothing but NaN sums to all_nan_sum.
Logsum(paths, i, all_nan_sum) ==
    IF \A j \in LogsumGroup(paths, i) : paths[j].logsum_component = DyNaN
        THEN all_nan_sum
        ELSE SumComponents(paths, { j \in LogsumGroup(paths, i) :
                                        paths[j].logsum_component # DyNaN })

\* logsum_component / logsum as the fraction of the two; NaN when either is
\* NaN and for 0 / 0.
NaNProbability == [ num |-> DyNaN, den |-> DyNaN ]

Divide(a, b) ==
    IF a = DyNaN \/ b = DyNaN \/ (a = {} /\ b = {}) THEN NaNProbability
    ELSE [ num |-> a, den |-> b ]

WithProbability(paths, all_nan_sum) ==
    [ i \in DOMAIN paths |->
        paths[i] @@
        [ logsum |-> Logsum(paths, i, all_nan_sum),
          probability |->
              Divide(paths[i].logsum_component, Logsum(paths, i, all_nan_sum)) ] ]

\* The columns kept when the three parts are put back together (li, wi and
\* mi stand for the position of the row in the frame).
cost_columns ==
    { "li", "wi", "mi", "user_class", "trip_list_id_num", "pathnum", "linknum",
      "demand_mode_type", "demand_mode", "supply_mode", "supply_mode_num",
      "weight_name", "weight_value", "var_value", "missed_xfer", "bump_iter" }

KeepColumns(cost) == { [ c \in cost_columns |-> r[c] ] : r \in cost }

\* calculate_cost keeping in the process-wide table only the weight rows the
\* links of the batch matched.
calculate_cost_KeepMatched(simulation_iteration) ==
    /\ pc = "simulation"
    /\ \E lc \in { pathset_links_cost_df(pathset_links_df, trip_list_df, simulation_iteration) } :
          WEIGHTS_DF' = SelectRows(WEIGHTS_DF, { r.wi : r \in JoinWeights(lc, WEIGHTS_DF) })
    /\ pc' = "aborted"
    /\ call' = [ op |-> "calculate_cost", raised |-> "NotImplementedError",
                 entry_costed |-> HasColumn(pathset_paths_df, "sim_cost"),
                 simulation_iteration |-> simulation_iteration,
                 cost_df |-> {}, log |-> << >> ]
    /\ UNCHANGED << weights_file, exit_status, error_str, trip_list_df, pathset_paths_df,
                    pathset_links_df, STOCH_DISPERSION, nan_group_sum, drive_df, transfers_df, pathset >>

calculate_cost(simulation_iteration) ==
    /\ pc = "simulation"
    /\ \E paths \in { StripPaths(pathset_paths_df) },
          links \in { StripLinks(pathset_paths_df, pathset_links_df) } :
       \E lc \in { pathset_links_cost_df(links, trip_list_df, simulation_iteration) } :
         IF missing_demand_mode(lc) # 0 \/ ~ link_df_assert(walk_df) \/ ~ link_df_assert(drive_df)
           THEN /\ pc' = "aborted"
                /\ pathset_paths_df' = paths
                /\ pathset_links_df' = links
                /\ call' = [ op |-> "calculate_cost", raised |-> "AssertionError",
                             entry_costed |-> HasColumn(pathset_paths_df, "sim_cost"),
                             simulation_iteration |-> simulation_iteration,
                             cost_df |-> {}, log |-> << >> ]
           ELSE \E cost \in { ResolvedCostDf(lc, WEIGHTS_DF, trip_list_df) } :
             IF Cardinality(missing_costs(cost)) > 0
               THEN /\ pc' = "aborted"
                    /\ pathset_paths_df' = paths
                    /\ pathset_links_df' = links
                    /\ call' = [ op |-> "calculate_cost", raised |-> "NotImplementedError",
                                 entry_costed |-> HasColumn(pathset_paths_df, "sim_cost"),
                                 simulation_iteration |-> simulation_iteration,
                                 cost_df |-> KeepColumns(cost), log |-> error_msgs(cost) ]
               ELSE \E done \in { WithRowCost(KeepColumns(cost)) } :
                    \E link_costs \in { cost_link_df(done) } :
                    \E components \in { WithLogsumComponent(
                                            MergePathCost(paths, cost_path_df(link_costs)),
                                            STOCH_DISPERSION) } :
                    /\ pc' = "simulation"
                    /\ pathset_links_df' = MergeLinkCost(links, link_costs)
                    /\ pathset_paths_df' = WithProbability(components, nan_group_sum)
                    /\ call' = [ op |-> "calculate_cost", raised |-> "",
                                 entry_costed |-> HasColumn(pathset_paths_df, "sim_cost"),
                                 simulation_iteration |-> simulation_iteration,
                                 cost_df |-> done, log |-> error_msgs(cost) ]
    /\ UNCHANGED << WEIGHTS_DF, weights_file, exit_status, error_str, trip_list_df,
                    STOCH_DISPERSION, nan_group_sum, drive_df, transfers_df, pathset >>

(***************************************************************************)
(* Specifications                                                          *)
(***************************************************************************)
NoCall == [ op |-> "none" ]
NoPathSet == [ constructed |-> FALSE ]

\* Every table that can be cut from the ConfigRows of the weight file.
ConfigRows == { 1, 2, 3, 4, 5, 6, 7, 8, 12 }

InitConfig ==
    /\ WEIGHTS_DF \in { SelectRows(WeightFile, S) : S \in SUBSET ConfigRows }
    /\ weights_file = NoFile
    /\ pc = "setup"
    /\ exit_status = 0
    /\ error_str = << >>
    /\ trip_list_df = TripList
    /\ STOCH_DISPERSION = 1
    /\ nan_group_sum \in AllNaNSums
    /\ drive_df = DriveTable
    /\ transfers_df = TransferTable
    /\ pathset = NoPathSet
    /\ pathset_paths_df = << >>
    /\ pathset_links_df = << >>
    /\ call = NoCall

NextConfig ==
    \E modes_df \in SUBSET DemandCombos, capacity_constraint \in BOOLEAN :
        verify_weight_config(modes_df, capacity_constraint)

SpecConfig == InitConfig /\ [][NextConfig]_vars

\* The tables that hold the CoreRows of the weight file and any of the
\* OptionalRows.
CoreRows == { 2, 4, 5, 7, 8, 9, 13, 14 }
OptionalRows == { 1, 3 }

Init ==
    /\ WEIGHTS_DF \in { SelectRows(WeightFile, CoreRows \cup S) : S \in SUBSET OptionalRows }
    /\ weights_file = NoFile
    /\ pc = "setup"
    /\ exit_status = 0
    /\ error_str = << >>
    /\ trip_list_df = TripList
    /\ STOCH_DISPERSION \in Dispersions
    /\ nan_group_sum \in AllNaNSums
    /\ drive_df = DriveTable
    /\ transfers_df = TransferTable
    /\ pathset = NoPathSet
    /\ pathset_paths_df = << >>
    /\ pathset_links_df = << >>
    /\ call = NoCall

Next ==
    \/ \E capacity_constraint \in BOOLEAN :
          verify_weight_config(demand_modes(trip_list_df), capacity_constraint)
    \/ \E ks \in PathChoices, k2 \in SecondTripKinds : generate_pathsets(ks, k2)
    \/ \E simulation_iteration \in SimIterations : calculate_cost(simulation_iteration)

Spec == Init /\ [][Next]_vars

\* The var_value study: a table with a weight on every variable, the drive
\* table as it should be, empty, or with a row of a transit mode.
VarRows == { 2, 3, 4, 5, 7, 8, 9, 10, 11, 13, 14, 15, 16, 17, 18, 19, 20, 21 }
VarOptionalRows == { 6 }
BadDriveRow == [taz_num |-> 2, supply_mode_num |-> 2, stop_id_num |-> 12, nums |-> [time_min |-> 4]]
DriveTables == { DriveTable, << >>, DriveTable \o << BadDriveRow >> }

\* The transfer table as it is, without a transfer_penalty column, and with
\* a second row for the stop pair 12 -> 13.
SecondTransferRow ==
    [from_stop_id_num |-> 12, to_stop_id_num |-> 13,
     nums |-> [dist |-> 2, transfer_penalty |-> 3]]

TransferTables ==
    { TransferTable,
      [ i \in DOMAIN TransferTable |->
            [ TransferTable[i] EXCEPT !.nums = [dist |-> @.dist] ] ],
      TransferTable \o << SecondTransferRow >> }

InitVars ==
    /\ WEIGHTS_DF \in { SelectRows(WeightFile, VarRows \cup S) : S \in SUBSET VarOptionalRows }
    /\ weights_file = NoFile
    /\ pc = "setup"
    /\ exit_status = 0
    /\ error_str = << >>
    /\ trip_list_df = TripList
    /\ STOCH_DISPERSION = 1
    /\ nan_group_sum \in AllNaNSums
    /\ drive_df \in DriveTables
    /\ transfers_df \in TransferTables
    /\ pathset = NoPathSet
    /\ pathset_paths_df = << >>
    /\ pathset_links_df = << >>
    /\ call = NoCall

NextVars ==
    \/ \E capacity_constraint \in BOOLEAN :
          verify_weight_config(demand_modes(trip_list_df), capacity_constraint)
    \/ \E ks \in VarPathChoices, k2 \in SecondTripVarKinds, boarded_known \in BOOLEAN :
          simulate_pathsets(ks, k2, boarded_known)
    \/ \E simulation_iteration \in SimIterations : calculate_cost(simulation_iteration)

SpecVars == InitVars /\ [][NextVars]_vars

(***************************************************************************)
(* The PathSet object of one traveler-trip: constructor, accessors and     *)
(* reset.  A datetime is << day, minute of the day >>; a Python container  *)
(* is its type with its items.                                             *)
(***************************************************************************)
DIR_OUTBOUND == 1
DIR_INBOUND == 2
MaxPathNum == 3        \* paths the search engine stores in a PathSet

TimeOf(datetime) == datetime[2]

TimeTargets == { "arrival", "departure", "anytime" }
DateTimes == { << 0, 15 >>, << 1, 60 >> }

\* The rows of the trip list a PathSet can be constructed from.
TripListDicts ==
    { [ time_target |-> tt, arrival_time |-> a, departure_time |-> d,
        arrival_time_min |-> TimeOf(a), departure_time_min |-> TimeOf(d) ] :
      tt \in TimeTargets, a \in DateTimes, d \in DateTimes }

EmptyDict == [ type |-> "dict", items |-> << >> ]
EmptyList == [ type |-> "list", items |-> << >> ]

\* len() of a container
PyLen(c) == Len(c.items)

\* direction with every trip taken as outbound.
DirectionOf_Outbound(trip_list_dict) == DIR_OUTBOUND

DirectionOf(trip_list_dict) ==
    IF trip_list_dict.time_target = "arrival" THEN DIR_OUTBOUND ELSE DIR_INBOUND

PrefTimeOf(trip_list_dict) ==
    IF trip_list_dict.time_target = "arrival"
        THEN TimeOf(trip_list_dict.arrival_time)
        ELSE TimeOf(trip_list_dict.departure_time)

PrefTimeMinOf(trip_list_dict) ==
    IF trip_list_dict.time_target = "arrival"
        THEN trip_list_dict.arrival_time_min
        ELSE trip_list_dict.departure_time_min

\* PathSet(trip_list_dict)
PathSet_init(trip_list_dict) ==
    /\ pathset = NoPathSet
    /\ IF trip_list_dict.time_target \in { "arrival", "departure" }
          THEN /\ pathset' = [ constructed   |-> TRUE,
                               attributes    |-> trip_list_dict,
                               direction     |-> DirectionOf(trip_list_dict),
                               pref_time     |-> PrefTimeOf(trip_list_dict),
                               pref_time_min |-> PrefTimeMinOf(trip_list_dict),
                               pathdict      |-> EmptyDict ]
               /\ call' = [ op |-> "PathSet", raised |-> "", trip_list_dict |-> trip_list_dict ]
          ELSE /\ pathset' = pathset
               /\ call' = [ op |-> "PathSet", raised |-> "Exception",
                            trip_list_dict |-> trip_list_dict ]
    /\ UNCHANGED << WEIGHTS_DF, weights_file, pc, exit_status, error_str, trip_list_df,
                    pathset_paths_df, pathset_links_df, STOCH_DISPERSION, nan_group_sum,
                    drive_df, transfers_df >>

path_found(self) == PyLen(self.pathdict) > 0
num_paths(self) == PyLen(self.pathdict)
outbound(self) == self.direction = DIR_OUTBOUND

\* reset clearing the paths with an empty dict.
reset_pathdict_Dict == EmptyDict

reset_pathdict == EmptyList

reset ==
    /\ pathset.constructed
    /\ pathset' = [ pathset EXCEPT !.pathdict = reset_pathdict ]
    /\ call' = [ op |-> "reset", raised |-> "", self |-> pathset ]
    /\ UNCHANGED << WEIGHTS_DF, weights_file, pc, exit_status, error_str, trip_list_df,
                    pathset_paths_df, pathset_links_df, STOCH_DISPERSION, nan_group_sum,
                    drive_df, transfers_df >>

\* The dicts the search engine can find for a trip: path index -> cost.
PathCosts == { 10, 20 }
FoundPathDicts ==
    UNION { { [ type |-> "dict", items |-> c ] : c \in [1..n -> PathCosts] } : n \in 1..MaxPathNum }

\* The search engine stores what it has found for the trip in the PathSet.
find_pathset(pathdict) ==
    /\ pathset.constructed
    /\ pathset' = [ pathset EXCEPT !.pathdict = pathdict ]
    /\ call' = [ op |-> "find_pathset", raised |-> "", self |-> pathset ]
    /\ UNCHANGED << WEIGHTS_DF, weights_file, pc, exit_status, error_str, trip_list_df,
                    pathset_paths_df, pathset_links_df, STOCH_DISPERSION, nan_group_sum,
                    drive_df, transfers_df >>

InitPathSet ==
    /\ WEIGHTS_DF = << >>
    /\ weights_file = NoFile
    /\ pc = "setup"
    /\ exit_status = 0
    /\ error_str = << >>
    /\ trip_list_df = TripList
    /\ STOCH_DISPERSION = 1
    /\ nan_group_sum \in AllNaNSums
    /\ drive_df = DriveTable
    /\ transfers_df = TransferTable
    /\ pathset = NoPathSet
    /\ pathset_paths_df = << >>
    /\ pathset_links_df = << >>
    /\ call = NoCall

NextPathSet ==
    \/ \E trip_list_dict \in TripListDicts : PathSet_init(trip_list_dict)
    \/ \E pathdict \in FoundPathDicts : find_pathset(pathdict)
    \/ reset

SpecPathSet == InitPathSet /\ [][NextPathSet]_vars

(***************************************************************************)
(* Properties of verify_weight_config.  They are stated over the table the *)
(* call was entered with (call.WEIGHTS_DF) and the state it left.          *)
(***************************************************************************)
Verified == call.op = "verify_weight_config"
Succeeded == Verified /\ pc = "ready"
Failed == Verified /\ pc = "exited"

\* Weight row w has the demand keys of combination m.
RowCovers(w, m) ==
    /\ w.user_class = m.user_class
    /\ w.demand_mode_type = m.demand_mode_type
    /\ w.demand_mode = m.demand_mode

\* Weight row w is a transfer weight of user class uc.
RowCoversTransfer(w, uc) ==
    /\ w.user_class = uc
    /\ w.demand_mode_type = "transfer"
    /\ w.demand_mode = "transfer"
    /\ w.supply_mode = "transfer"

UserClasses(modes) == { m.user_class : m \in modes }
Uncovered(W, modes) ==
    { m \in modes : ~ \E i \in DOMAIN W : RowCovers(W[i], m) }
UncoveredTransfer(W, modes) ==
    { uc \in UserClasses(modes) : ~ \E i \in DOMAIN W : RowCoversTransfer(W[i], uc) }
FullCoverage(W, modes) ==
    Uncovered(W, modes) = {} /\ UncoveredTransfer(W, modes) = {}
HasAtCapacity(W) == \E i \in DOMAIN W : W[i].weight_name = "at_capacity"

\* C1: a call that succeeds had a table covering every demand combination and
\* a transfer weight for every user class of the demand; with
\* capacity_constraint off the call succeeds exactly when the table covers.
C1_SucceedsIffCovered ==
    Verified =>
        /\ pc = "ready" => FullCoverage(call.WEIGHTS_DF, call.modes_df)
        /\ ~ call.capacity_constraint =>
              (pc = "ready" <=> FullCoverage(call.WEIGHTS_DF, call.modes_df))

\* A call without capacity_constraint succeeded over a demand of two user
\* classes although the table held an at_capacity row.
C1_Witness ==
    /\ Succeeded
    /\ ~ call.capacity_constraint
    /\ Cardinality(UserClasses(call.modes_df)) = 2
    /\ HasAtCapacity(call.WEIGHTS_DF)

RemoveAt(s, i) == SelectRows(s, DOMAIN s \ { i })

\* The report names combination m (explicit section) / class uc (implicit section).
ReportNames(report, m) ==
    \E k \in DOMAIN report : report[k].section = "explicit" /\ m \in report[k].rows
ReportNamesTransfer(report, uc) ==
    \E k \in DOMAIN report :
        /\ report[k].section = "implicit"
        /\ \E r \in report[k].rows : r.user_class = uc

\* The verification of the same demand over the table without row i fails and
\* its report names everything in covered that row i covered.
RemovalReported(W, modes, cap, i, combos, classes) ==
    LET report == ErrorReport(modes, RemoveAt(W, i), cap)
    IN  /\ Len(report) > 0
        /\ \A m \in combos : ReportNames(report, m)
        /\ \A uc \in classes : ReportNamesTransfer(report, uc)

CoveredBy(w, modes) == { m \in modes : RowCovers(w, m) }
CoveredClassesBy(w, modes) == { uc \in UserClasses(modes) : RowCoversTransfer(w, uc) }

\* C2 as stated: after a success, removing any one row that covers a demand
\* combination makes the verification fail and name that combination.
C2_AnyCoveringRow ==
    Succeeded =>
        \A i \in DOMAIN call.WEIGHTS_DF :
            LET w == call.WEIGHTS_DF[i] IN
            (CoveredBy(w, call.modes_df) # {} \/ CoveredClassesBy(w, call.modes_df) # {})
            => RemovalReported(call.WEIGHTS_DF, call.modes_df, call.capacity_constraint, i,
                               CoveredBy(w, call.modes_df),
                               CoveredClassesBy(w, call.modes_df))

\* The combinations and classes that row i is the only row to cover.
OnlyCoveredBy(W, i, modes) ==
    { m \in CoveredBy(W[i], modes) :
        \A j \in DOMAIN W : RowCovers(W[j], m) => j = i }
OnlyCoveredClassesBy(W, i, modes) ==
    { uc \in CoveredClassesBy(W[i], modes) :
        \A j \in DOMAIN W : RowCoversTransfer(W[j], uc) => j = i }

\* C2: after a success, removing a row that is the only row covering some
\* demand combination (or the only transfer weight of a user class of the
\* demand) makes the verification fail, and the report names that combination.
C2_OnlyCoveringRow ==
    Succeeded =>
        \A i \in DOMAIN call.WEIGHTS_DF :
            (OnlyCoveredBy(call.WEIGHTS_DF, i, call.modes_df) # {}
                \/ OnlyCoveredClassesBy(call.WEIGHTS_DF, i, call.modes_df) # {})
            => RemovalReported(call.WEIGHTS_DF, call.modes_df, call.capacity_constraint, i,
                               OnlyCoveredBy(call.WEIGHTS_DF, i, call.modes_df),
                               OnlyCoveredClassesBy(call.WEIGHTS_DF, i, call.modes_df))

\* A success over a table in which one row is the only cover of a demand
\* combination, another the only transfer weight of a class, and two further
\* rows cover the same combination.
C2_Witness ==
    /\ Succeeded
    /\ \E i \in DOMAIN call.WEIGHTS_DF :
           OnlyCoveredBy(call.WEIGHTS_DF, i, call.modes_df) # {}
    /\ \E i \in DOMAIN call.WEIGHTS_DF :
           OnlyCoveredClassesBy(call.WEIGHTS_DF, i, call.modes_df) # {}
    /\ \E i, j \in DOMAIN call.WEIGHTS_DF :
           /\ i # j
           /\ CoveredBy(call.WEIGHTS_DF[i], call.modes_df)
                 \cap CoveredBy(call.WEIGHTS_DF[j], call.modes_df) # {}

\* A weight row without its numeric supply-mode id, and its multiplicity.
StripNum(r) == [ r EXCEPT !.supply_mode_num = NaN ]
Count(W, r) == Cardinality({ i \in DOMAIN W : StripNum(W[i]) = StripNum(r) })

\* The distinct (user_class, demand_mode, supply_mode) of the transit rows.
TransitTriples(W) ==
    { << W[i].user_class, W[i].demand_mode, W[i].supply_mode >> :
        i \in { j \in DOMAIN W : W[j].demand_mode_type = "transit" } }
SynthRow(t) == WRow(t[1], "transit", t[2], t[3], "at_capacity", HUGE_COST)

\* Lexicographic order of two tuples of numbers.
LexLeq(a, b) ==
    \A k \in 1..Len(a) : (\A h \in 1..(k - 1) : a[h] = b[h]) => a[k] <= b[k]
NameKey(r) == << StrRank(r.user_class), StrRank(r.demand_mode_type),
                 StrRank(r.demand_mode), StrRank(r.supply_mode),
                 StrRank(r.weight_name) >>
NumKey(r) == << StrRank(r.user_class), StrRank(r.demand_mode_type),
                StrRank(r.demand_mode), r.supply_mode_num,
                StrRank(r.weight_name) >>
SortedByName(W) ==
    \A i, j \in DOMAIN W : i < j => LexLeq(NameKey(W[i]), NameKey(W[j]))
SortedByNum(W) ==
    \A i, j \in DOMAIN W : i < j => LexLeq(NumKey(W[i]), NumKey(W[j]))

\* C3: a call with capacity_constraint on over a table without at_capacity
\* rows leaves, whether it succeeds or exits, a table holding exactly one
\* at_capacity row of value HUGE_COST per distinct transit (user class, demand
\* mode, supply mode), every row it was entered with, nothing else, sorted on
\* (user_class, demand_mode_type, demand_mode, supply_mode, weight_name).
C3_AtCapacitySynthesized ==
    (Verified /\ call.capacity_constraint /\ ~ HasAtCapacity(call.WEIGHTS_DF)) =>
        /\ \A tr \in TransitTriples(call.WEIGHTS_DF) :
               Count(WEIGHTS_DF, SynthRow(tr)) = 1
        /\ \A i \in DOMAIN WEIGHTS_DF :
               WEIGHTS_DF[i].weight_name = "at_capacity" =>
                   \E tr \in TransitTriples(call.WEIGHTS_DF) :
                       StripNum(WEIGHTS_DF[i]) = SynthRow(tr)
        /\ \A i \in DOMAIN call.WEIGHTS_DF :
               Count(WEIGHTS_DF, call.WEIGHTS_DF[i])
                   = Count(call.WEIGHTS_DF, call.WEIGHTS_DF[i])
        /\ Len(WEIGHTS_DF)
               = Len(call.WEIGHTS_DF) + Cardinality(TransitTriples(call.WEIGHTS_DF))
        /\ SortedByName(WEIGHTS_DF)

\* A call with capacity_constraint on that exited over an unsorted table with
\* two transit supply modes, one of them weighted by two rows.
C3_Witness ==
    /\ Failed
    /\ call.capacity_constraint
    /\ ~ HasAtCapacity(call.WEIGHTS_DF)
    /\ ~ SortedByName(call.WEIGHTS_DF)
    /\ Cardinality(TransitTriples(call.WEIGHTS_DF)) >= 2
    /\ \E i, j \in DOMAIN call.WEIGHTS_DF :
           /\ i # j
           /\ call.WEIGHTS_DF[i].demand_mode_type = "transit"
           /\ KeyColumns(call.WEIGHTS_DF[i]) = KeyColumns(call.WEIGHTS_DF[j])

Section(report, name) == { k \in DOMAIN report : report[k].section = name }
AtCapacityRows(W) == { W[i] : i \in { j \in DOMAIN W : W[j].weight_name = "at_capacity" } }

\* C4: a call with capacity_constraint on over a table that already holds an
\* at_capacity row exits with status 2, reports those rows and adds nothing to
\* the table; with capacity_constraint off such rows are never reported, the
\* table keeps its rows and the call succeeds exactly when the table covers.
C4_AtCapacityConflict ==
    Verified =>
        /\ (call.capacity_constraint /\ HasAtCapacity(call.WEIGHTS_DF)) =>
              /\ pc = "exited"
              /\ exit_status = 2
              /\ \E k \in Section(error_str, "at_capacity") :
                     error_str[k].rows = AtCapacityRows(call.WEIGHTS_DF)
              /\ WEIGHTS_DF = call.WEIGHTS_DF
        /\ ~ call.capacity_constraint =>
              /\ Section(error_str, "at_capacity") = {}
              /\ Len(WEIGHTS_DF) = Len(call.WEIGHTS_DF)
              /\ \A i \in DOMAIN WEIGHTS_DF :
                     StripNum(WEIGHTS_DF[i]) = StripNum(call.WEIGHTS_DF[i])
              /\ FullCoverage(call.WEIGHTS_DF, call.modes_df) => pc = "ready"

\* A call with capacity_constraint on that exited although the table covered
\* the whole (non-empty) demand: the at_capacity rows alone made it fail.
C4_Witness ==
    /\ Failed
    /\ call.capacity_constraint
    /\ HasAtCapacity(call.WEIGHTS_DF)
    /\ call.modes_df # {}
    /\ FullCoverage(call.WEIGHTS_DF, call.modes_df)
    /\ \E i \in DOMAIN call.WEIGHTS_DF :
           /\ call.WEIGHTS_DF[i].demand_mode_type = "transit"
           /\ call.WEIGHTS_DF[i].weight_name # "at_capacity"

ImplicitRow(uc) ==
    [user_class |-> uc, demand_mode_type |-> "transfer",
     demand_mode |-> "transfer", supply_mode |-> "transfer"]

\* C5: every call evaluates the three checks and the report has one section
\* per failing check (uncovered combinations, missing transfer weights,
\* at_capacity rows under capacity_constraint), each listing what failed; if
\* any check fails the process exits with status 2, the weight file is not
\* written and no row receives a numeric supply-mode id.
C5_AllChecksReported ==
    Verified =>
        LET W == call.WEIGHTS_DF
            explicit == Uncovered(W, call.modes_df)
            implicit == UncoveredTransfer(W, call.modes_df)
            conflict == call.capacity_constraint /\ HasAtCapacity(W)
            failing == (IF explicit # {} THEN 1 ELSE 0) + (IF implicit # {} THEN 1 ELSE 0)
                         + (IF conflict THEN 1 ELSE 0)
        IN  /\ Len(error_str) = failing
            /\ explicit # {} =>
                   \E k \in Section(error_str, "explicit") : error_str[k].rows = explicit
            /\ implicit # {} =>
                   \E k \in Section(error_str, "implicit") :
                       error_str[k].rows = { ImplicitRow(uc) : uc \in implicit }
            /\ conflict =>
                   \E k \in Section(error_str, "at_capacity") :
                       error_str[k].rows = AtCapacityRows(W)
            /\ failing > 0 =>
                   /\ pc = "exited"
                   /\ exit_status = 2
                   /\ weights_file = call.weights_file
                   /\ \A i \in DOMAIN WEIGHTS_DF :
                          \/ WEIGHTS_DF[i].supply_mode_num = NaN
                          \/ \E j \in DOMAIN W : WEIGHTS_DF[i] = W[j]
            /\ failing = 0 => pc = "ready" /\ exit_status = 0

\* A first call in which the three checks failed together.
C5_Witness ==
    /\ Failed
    /\ Len(error_str) = 3
    /\ call.weights_file = NoFile
    /\ Len(WEIGHTS_DF) >= 2

\* C6 as stated: after a success the file has no header line, one line of
\* the six columns per weight row, sorted ascending on (user_class,
\* demand_mode_type, demand_mode, numeric supply mode, weight_name).
C6_HeaderlessSortedFile ==
    Succeeded =>
        /\ weights_file.sep = " "
        /\ SortedByNum(WEIGHTS_DF)
        /\ Len(weights_file.lines) = Len(WEIGHTS_DF)
        /\ \A i \in DOMAIN WEIGHTS_DF :
               weights_file.lines[i] =
                   << WEIGHTS_DF[i].user_class, WEIGHTS_DF[i].demand_mode_type,
                      WEIGHTS_DF[i].demand_mode, WEIGHTS_DF[i].supply_mode_num,
                      WEIGHTS_DF[i].weight_name, WEIGHTS_DF[i].weight_value >>

\* C6: after a success the file, separated by " ", starts with the line of
\* the six column names and then has one line of the six columns per weight
\* row in the order of the table; that order is the order the table was
\* entered with when capacity_constraint is off, and ascending on (user_class,
\* demand_mode_type, demand_mode, supply mode name, weight_name) when the call
\* synthesized at_capacity rows.
C6_FileWithHeader ==
    Succeeded =>
        /\ weights_file.sep = " "
        /\ Len(weights_file.lines) = Len(WEIGHTS_DF) + 1
        /\ weights_file.lines[1] =
               << "user_class", "demand_mode_type", "demand_mode",
                  "supply_mode_num", "weight_name", "weight_value" >>
        /\ \A i \in DOMAIN WEIGHTS_DF :
               weights_file.lines[i + 1] =
                   << WEIGHTS_DF[i].user_class, WEIGHTS_DF[i].demand_mode_type,
                      WEIGHTS_DF[i].demand_mode, WEIGHTS_DF[i].supply_mode_num,
                      WEIGHTS_DF[i].weight_name, WEIGHTS_DF[i].weight_value >>
        /\ call.capacity_constraint => SortedByName(WEIGHTS_DF)
        /\ ~ call.capacity_constraint =>
               /\ Len(WEIGHTS_DF) = Len(call.WEIGHTS_DF)
               /\ \A i \in DOMAIN WEIGHTS_DF :
                      StripNum(WEIGHTS_DF[i]) = StripNum(call.WEIGHTS_DF[i])

\* A success with capacity_constraint on whose file is in supply-mode-name
\* order and not in numeric supply-mode order.
C6_Witness ==
    /\ Succeeded
    /\ call.capacity_constraint
    /\ call.modes_df # {}
    /\ Len(weights_file.lines) >= 6
    /\ ~ SortedByNum(WEIGHTS_DF)

(***************************************************************************)
(* Properties of calculate_cost.  They are stated over the tables a call   *)
(* that returned has left, the weight table and the expansion the call     *)
(* worked on (call.cost_df: one row per link and matching weight row).     *)
(***************************************************************************)
Returned == call.op = "calculate_cost" /\ call.raised = ""

\* The user class and the demand mode of a link, from its trip.
TripOf(l) == CHOOSE x \in Range(trip_list_df) : x.trip_list_id_num = l.trip_list_id_num
LinkDemandMode(l) ==
    CASE l.linkmode = "access"   -> TripOf(l).access_mode
      [] l.linkmode = "egress"   -> TripOf(l).egress_mode
      [] l.linkmode = "transit"  -> TripOf(l).transit_mode
      [] l.linkmode = "transfer" -> "transfer"

\* The weight rows that match link l.
MatchedWeights(l) ==
    { j \in DOMAIN WEIGHTS_DF :
        /\ WEIGHTS_DF[j].user_class = TripOf(l).user_class
        /\ WEIGHTS_DF[j].demand_mode_type = l.linkmode
        /\ WEIGHTS_DF[j].demand_mode = LinkDemandMode(l)
        /\ WEIGHTS_DF[j].supply_mode = l.mode }

\* The sum of the second components of a set of pairs.
RECURSIVE SumPairs(_)
SumPairs(S) ==
    IF S = {} THEN 0
    ELSE LET x == CHOOSE y \in S : TRUE IN x[2] + SumPairs(S \ { x })

FlaggedMissed(l) == l.missed_xfer = 1
FlaggedBumped(l) == l.bump_iter >= 0
\* bump_iter is read as -1 for every link when simulation_iteration is 0.
ReadAsBumped(l) == l.bump_iter >= 0 /\ call.simulation_iteration > 0

\* C7 as stated: every link flagged missed-transfer or capacity-bumped has
\* the link cost HUGE_COST.
C7_PenaltyIsHugeCost ==
    Returned =>
        \A i \in DOMAIN pathset_links_df :
            (FlaggedMissed(pathset_links_df[i]) \/ FlaggedBumped(pathset_links_df[i]))
            => pathset_links_df[i].sim_cost = HUGE_COST

\* C7: a link flagged missed-transfer, or whose bump iteration is >= 0 in a
\* call with simulation_iteration > 0, that is matched by k >= 1 weight rows
\* has the link cost k x HUGE_COST whatever its variables and weights are;
\* matched by no weight row it has no cost (NaN).
C7_PenaltyPerWeightRow ==
    Returned =>
        \A i \in DOMAIN pathset_links_df :
            LET l == pathset_links_df[i]
                k == Cardinality(MatchedWeights(l))
            IN  (FlaggedMissed(l) \/ ReadAsBumped(l)) =>
                    /\ k >= 1 => l.sim_cost = k * HUGE_COST
                    /\ k = 0 => l.sim_cost = NaN

\* A later simulation iteration costed a missed-transfer link matched by two
\* weight rows and a bumped link.
C7_Witness ==
    /\ Returned
    /\ call.simulation_iteration > 0
    /\ \E i \in DOMAIN pathset_links_df :
           /\ FlaggedMissed(pathset_links_df[i])
           /\ Cardinality(MatchedWeights(pathset_links_df[i])) = 2
           /\ pathset_links_df[i].sim_cost = 2 * HUGE_COST
    /\ \E i \in DOMAIN pathset_links_df :
           /\ FlaggedBumped(pathset_links_df[i])
           /\ pathset_links_df[i].sim_cost >= HUGE_COST

\* variable value x weight value of the rows of the expansion of link i.
LinkProducts(i) ==
    { << r.wi, r.var_value * r.weight_value >> : r \in { x \in call.cost_df : x.li = i } }

PathLinkRows(p) ==
    { i \in DOMAIN pathset_links_df :
        /\ pathset_links_df[i].trip_list_id_num = p.trip_list_id_num
        /\ pathset_links_df[i].pathnum = p.pathnum }

CostedLinks(p) == { i \in PathLinkRows(p) : pathset_links_df[i].sim_cost # NaN }

TripIds == { pathset_paths_df[q].trip_list_id_num : q \in DOMAIN pathset_paths_df }
TripPaths(tr) ==
    { q \in DOMAIN pathset_paths_df : pathset_paths_df[q].trip_list_id_num = tr }
Costed(tr) == { q \in TripPaths(tr) : pathset_paths_df[q].sim_cost # NaN }
TripLogsum(tr) == pathset_paths_df[CHOOSE q \in TripPaths(tr) : TRUE].logsum

\* The sum of the second components, floats, of a set of pairs.
RECURSIVE DySumPairs(_)
DySumPairs(S) ==
    IF S = {} THEN {}
    ELSE LET x == CHOOSE y \in S : TRUE IN DyAdd(DySumPairs(S \ { x }), x[2])

\* The probabilities of the paths Q of a trip are numbers of [0, 1] over the
\* trip's logsum and sum to 1.
ProperProbabilities(tr, Q) ==
    /\ \A q \in Q :
           /\ pathset_paths_df[q].probability # NaNProbability
           /\ pathset_paths_df[q].probability.den = TripLogsum(tr)
           /\ ~ DyLess(TripLogsum(tr), pathset_paths_df[q].probability.num)
    /\ DySumPairs({ << q, pathset_paths_df[q].probability.num >> : q \in Q })
           = TripLogsum(tr)

\* Probability of path q1 is greater than that of path q2 of the same trip.
MoreProbable(q1, q2) ==
    /\ pathset_paths_df[q1].probability # NaNProbability
    /\ pathset_paths_df[q2].probability # NaNProbability
    /\ DyLess(pathset_paths_df[q2].probability.num, pathset_paths_df[q1].probability.num)

PathWeight(q) ==
    IF STOCH_DISPERSION * pathset_paths_df[q].sim_cost > ExpUnderflow
        THEN {} ELSE { STOCH_DISPERSION * pathset_paths_df[q].sim_cost }

SinglePathTrips == { tr \in TripIds : Cardinality(TripPaths(tr)) = 1 }
OnlyPath(tr) == CHOOSE q \in TripPaths(tr) : TRUE

\* C10 as stated: the only path of a trip has the probability 1.0 and the
\* trip's logsum is exp(-dispersion x the path's cost).
C10_SinglePathCertain ==
    Returned =>
        \A tr \in SinglePathTrips :
            LET p == pathset_paths_df[OnlyPath(tr)] IN
            /\ p.probability # NaNProbability
            /\ p.probability.num = p.probability.den
            /\ p.logsum = PathWeight(OnlyPath(tr))

\* C10: for the only path of a trip, when the path has a cost the trip's
\* logsum is exp(-dispersion x that cost) whatever the other trips of the
\* batch are, and the probability is 1.0 when that weight is not 0 and NaN
\* (0 / 0) when it has underflowed to 0; when the path has no cost the
\* probability is NaN and the logsum is what pandas sums nothing but NaN to.
C10_SinglePathOwnWeight ==
    Returned =>
        \A tr \in SinglePathTrips :
            LET p == pathset_paths_df[OnlyPath(tr)] IN
            IF p.sim_cost = NaN
                THEN p.logsum \in { DyNaN, {} } /\ p.probability = NaNProbability
                ELSE /\ p.logsum = PathWeight(OnlyPath(tr))
                     /\ IF PathWeight(OnlyPath(tr)) = {}
                           THEN p.probability = NaNProbability
                           ELSE /\ p.probability # NaNProbability
                                /\ p.probability.num = p.probability.den
                                /\ p.probability.num = PathWeight(OnlyPath(tr))

\* A batch in which a trip has one path with a nonzero weight next to a trip
\* of two costed paths.
C10_Witness ==
    /\ Returned
    /\ \E tr \in SinglePathTrips :
           /\ pathset_paths_df[OnlyPath(tr)].sim_cost # NaN
           /\ PathWeight(OnlyPath(tr)) # {}
           /\ pathset_paths_df[OnlyPath(tr)].probability.num = PathWeight(OnlyPath(tr))
    /\ \E tr \in TripIds : Cardinality(Costed(tr)) = 2 /\ TripLogsum(tr) # {}

\* C11: a call of calculate_cost on the tables a call has returned, with the
\* same simulation_iteration and everything else unchanged, returns and leaves
\* the link table, the path table (costs, logsums, probabilities) and the
\* expansion exactly as the first call left them.
C11_Idempotent ==
    [][ (/\ call.op = "calculate_cost"
         /\ call.raised = ""
         /\ call'.op = "calculate_cost"
         /\ call'.simulation_iteration = call.simulation_iteration)
        => /\ call'.entry_costed
           /\ call'.raised = ""
           /\ pathset_links_df' = pathset_links_df
           /\ pathset_paths_df' = pathset_paths_df
           /\ call'.cost_df = call.cost_df ]_vars

\* A call has returned that was entered with the columns of an earlier call:
\* a trip of three paths, one of them penalized, and a path without cost.
C11_Witness ==
    /\ Returned
    /\ call.entry_costed
    /\ \E tr \in TripIds : Cardinality(TripPaths(tr)) = 3
    /\ \E q \in DOMAIN pathset_paths_df : pathset_paths_df[q].sim_cost >= HUGE_COST
    /\ \E q \in DOMAIN pathset_paths_df : pathset_paths_df[q].probability = NaNProbability
    /\ \A i \in DOMAIN pathset_links_df :
           DOMAIN pathset_links_df[i] = DOMAIN Link("", "", 0, 0, 0, 0, 0, 0, 0, 0, 0, 0)
                \cup { "trip_list_id_num", "pathnum", "linknum", "sim_cost" }

\* The demand of the trip list was verified against the weight table: every
\* demand combination and every user class's transfer has a weight row.
DemandVerified == FullCoverage(WEIGHTS_DF, demand_modes(trip_list_df))

InExpansion(l) == \E r \in call.cost_df : LinkKey(r) = LinkKey(l)

\* C20 as stated: after verify_weight_config has succeeded for the demand,
\* every link handed to calculate_cost matches at least one weight row, is in
\* the link x weight expansion and has a cost in the output link table.
C20_EveryLinkCosted ==
    Returned =>
        /\ DemandVerified
        /\ \A i \in DOMAIN pathset_links_df :
              /\ MatchedWeights(pathset_links_df[i]) # {}
              /\ InExpansion(pathset_links_df[i])
              /\ pathset_links_df[i].sim_cost # NaN

\* C20 as the code has it: the demand has been verified, and a link is in the
\* expansion and has a cost exactly when a weight row has its user class, link
\* mode, demand mode and supply mode; the verification says nothing about
\* supply modes, and a link of a supply mode without weight row has no cost
\* and is left out of its path's cost.
C20_CostedIffSupplyModeWeighted ==
    Returned =>
        /\ DemandVerified
        /\ \A i \in DOMAIN pathset_links_df :
              /\ InExpansion(pathset_links_df[i]) <=> MatchedWeights(pathset_links_df[i]) # {}
              /\ pathset_links_df[i].sim_cost # NaN <=> MatchedWeights(pathset_links_df[i]) # {}
        /\ \A q \in DOMAIN pathset_paths_df :
              (CostedLinks(pathset_paths_df[q]) # PathLinkRows(pathset_paths_df[q])
                 /\ CostedLinks(pathset_paths_df[q]) # {})
              => pathset_paths_df[q].sim_cost =
                    SumPairs({ << i, pathset_links_df[i].sim_cost >> :
                                  i \in CostedLinks(pathset_paths_df[q]) })

\* A call has returned on a verified table without weight for express_bus: a
\* path rides an express bus between a walk access and a walk egress link
\* that are costed.
C20_Witness ==
    /\ Returned
    /\ DemandVerified
    /\ \E q \in DOMAIN pathset_paths_df :
          /\ \E i \in PathLinkRows(pathset_paths_df[q]) :
                /\ pathset_links_df[i].mode = "express_bus"
                /\ pathset_links_df[i].sim_cost = NaN
                /\ ~ InExpansion(pathset_links_df[i])
          /\ Cardinality(CostedLinks(pathset_paths_df[q])) = 2
          /\ pathset_paths_df[q].sim_cost # NaN

HasTransitRow(W) == \E i \in DOMAIN W : W[i].demand_mode_type = "transit"

\* The call left the table and the weight file as they were (the file
\* written anew with the same lines).
AddedNothing == WEIGHTS_DF = call.WEIGHTS_DF /\ weights_file = call.weights_file

\* C22 as stated: after a successful call of verify_weight_config with
\* capacity_constraint on, every later call with capacity_constraint on fails
\* with the at_capacity conflict, whatever the demand; a later call with
\* capacity_constraint off succeeds as a first call would and adds nothing.
C22_SecondEnforcementFails ==
    (Verified /\ call.was_enforced) =>
        /\ call.capacity_constraint =>
              /\ Failed
              /\ Section(error_str, "at_capacity") # {}
        /\ ~ call.capacity_constraint =>
              /\ FullCoverage(call.WEIGHTS_DF, call.modes_df) <=> Succeeded
              /\ AddedNothing

\* C22: after a successful call of verify_weight_config with
\* capacity_constraint on, the table holds at_capacity rows exactly when it
\* holds transit weight rows; a later call with capacity_constraint on then
\* fails with the at_capacity conflict, whatever the demand, and over a table
\* without transit rows it succeeds again when the table covers the demand,
\* adding nothing; a later call with capacity_constraint off succeeds as a
\* first call would and adds nothing.
C22_SecondEnforcementFailsOnTransit ==
    (Verified /\ call.was_enforced) =>
        /\ HasAtCapacity(call.WEIGHTS_DF) <=> HasTransitRow(call.WEIGHTS_DF)
        /\ (call.capacity_constraint /\ HasTransitRow(call.WEIGHTS_DF)) =>
              /\ Failed
              /\ \E k \in Section(error_str, "at_capacity") :
                     error_str[k].rows = AtCapacityRows(call.WEIGHTS_DF)
        /\ (~ call.capacity_constraint \/ ~ HasTransitRow(call.WEIGHTS_DF)) =>
              /\ FullCoverage(call.WEIGHTS_DF, call.modes_df) <=> Succeeded
              /\ Section(error_str, "at_capacity") = {}
              /\ AddedNothing

\* A second call with capacity_constraint on has failed on the at_capacity
\* rows of the first, over a table that covers its (non-empty) demand.
C22_Witness ==
    /\ Failed
    /\ call.was_enforced
    /\ call.capacity_constraint
    /\ call.modes_df # {}
    /\ FullCoverage(call.WEIGHTS_DF, call.modes_df)
    /\ Cardinality(AtCapacityRows(call.WEIGHTS_DF)) >= 2

(***************************************************************************)
(* Properties of the var_value resolution.  They are stated over the rows  *)
(* of the expansion the last call resolved (call.cost_df) and the link     *)
(* table the call left.                                                    *)
(***************************************************************************)
\* The call got as far as resolving the variables.
Resolved == call.op = "calculate_cost" /\ call.raised # "AssertionError"

\* The link of a row of the expansion.
LinkOf(r) == CHOOSE l \in Range(pathset_links_df) : LinkKey(l) = LinkKey(r)

VarRowsOf(mode_types, names) ==
    { r \in call.cost_df : r.demand_mode_type \in mode_types /\ r.weight_name \in names }

DelayRows == VarRowsOf({ "access", "egress" }, { "preferred_delay_min" })

\* C12: the preferred_delay_min variable is, for a trip with time target
\* arrival, 0 on the access link and the trip's preferred arrival time less the
\* egress link's arrival time on the egress link (positive when the traveler
\* arrives early); for a trip with time target departure, the access link's
\* departure time less the trip's preferred departure time on the access link
\* and 0 on the egress link.
C12_DelayTowardsPreference ==
    Resolved =>
        \A r \in DelayRows :
            r.var_value =
                CASE TripOf(r).time_target = "arrival" /\ r.demand_mode_type = "access" -> 0
                  [] TripOf(r).time_target = "arrival" /\ r.demand_mode_type = "egress"
                        -> TripOf(r).arrival_time - LinkOf(r).pf_B_time
                  [] TripOf(r).time_target = "departure" /\ r.demand_mode_type = "access"
                        -> LinkOf(r).pf_A_time - TripOf(r).departure_time
                  [] TripOf(r).time_target = "departure" /\ r.demand_mode_type = "egress" -> 0

\* C12 as stated: the egress delay of an arrival trip is the egress link's
\* arrival time less the trip's preferred arrival time.
C12_AchievedLessPreferred ==
    Resolved =>
        \A r \in DelayRows :
            r.var_value =
                CASE TripOf(r).time_target = "arrival" /\ r.demand_mode_type = "access" -> 0
                  [] TripOf(r).time_target = "arrival" /\ r.demand_mode_type = "egress"
                        -> LinkOf(r).pf_B_time - TripOf(r).arrival_time
                  [] TripOf(r).time_target = "departure" /\ r.demand_mode_type = "access"
                        -> LinkOf(r).pf_A_time - TripOf(r).departure_time
                  [] TripOf(r).time_target = "departure" /\ r.demand_mode_type = "egress" -> 0

\* A call has returned with an arrival trip that arrives early and one that
\* arrives late, and a departure trip that leaves before its preferred time,
\* each with a delay of 0 at its other end.
C12_Witness ==
    /\ Returned
    /\ \E r \in DelayRows : r.demand_mode_type = "egress" /\ r.var_value > 0
    /\ \E r \in DelayRows : r.demand_mode_type = "egress" /\ r.var_value < 0
    /\ \E r \in DelayRows : r.demand_mode_type = "access" /\ r.var_value < 0
    /\ \E r \in DelayRows : TripOf(r).time_target = "arrival" /\ r.demand_mode_type = "access"
    /\ \E r \in DelayRows : TripOf(r).time_target = "departure" /\ r.demand_mode_type = "egress"


\* The rows of the transfer links whose two ends are the same stop.
ZeroWalkRows ==
    { r \in call.cost_df :
        r.demand_mode_type = "transfer" /\ LinkOf(r).A_id_num = LinkOf(r).B_id_num }

\* The transfer_penalty values the transfer table holds for the link of r.
SuppliedPenalty(r) ==
    { x.nums.transfer_penalty : x \in { y \in Range(transfers_df) :
          /\ y.from_stop_id_num = LinkOf(r).A_id_num
          /\ y.to_stop_id_num = LinkOf(r).B_id_num
          /\ "transfer_penalty" \in DOMAIN y.nums } } \ { NaN }

\* C13: a transfer link from a stop to the same stop has var_value 0 for every
\* weight name other than transfer_penalty, whatever its walk time and the
\* transfer table say; for transfer_penalty it has the value the transfer
\* table supplies, and 1 when the table supplies none.
C13_ZeroWalkTransfer ==
    Resolved =>
        \A r \in ZeroWalkRows :
            IF r.weight_name # "transfer_penalty" THEN r.var_value = 0
            ELSE IF SuppliedPenalty(r) = {} THEN r.var_value = 1
                 ELSE r.var_value \in SuppliedPenalty(r)

\* A call has returned with a zero-walk transfer whose dist the transfer
\* table gives as 5, one whose transfer_penalty the table supplies and one
\* whose transfer_penalty it does not.
C13_Witness ==
    /\ Returned
    /\ \E r \in ZeroWalkRows :
          /\ r.weight_name = "dist"
          /\ \E x \in Range(transfers_df) :
                /\ x.from_stop_id_num = LinkOf(r).A_id_num
                /\ x.to_stop_id_num = LinkOf(r).B_id_num
                /\ x.nums.dist > 0
    /\ \E r \in ZeroWalkRows : r.weight_name = "walk_time_min"
    /\ \E r \in ZeroWalkRows :
          r.weight_name = "transfer_penalty" /\ SuppliedPenalty(r) # {} /\ r.var_value = 3
    /\ \E r \in ZeroWalkRows :
          r.weight_name = "transfer_penalty" /\ SuppliedPenalty(r) = {} /\ r.var_value = 1


TransitRows(name) == VarRowsOf({ "transit" }, { name })

\* The link table records who boarded at a bump stop.
BoardedKnown == HasColumn(pathset_links_df, "bumpstop_boarded")

\* The vehicle of link l is full or over capacity, and the traveler is not
\* recorded as having boarded it at the bump stop.
LeftBehind(l) ==
    /\ l.overcap # NaN
    /\ l.overcap >= 0
    /\ BoardedKnown => l.bumpstop_boarded # 1

\* C14: the at_capacity variable of a transit link is 1 exactly when the
\* vehicle's overcap is >= 0 and the traveler is not recorded as having boarded
\* at the bump stop (without such a record: exactly when overcap >= 0), and 0
\* otherwise; the overcap variable is overcap where that is positive and 0
\* where it is not.
C14_AtCapacityAndOvercap ==
    Resolved =>
        /\ \A r \in TransitRows("at_capacity") :
              r.var_value = IF LeftBehind(LinkOf(r)) THEN 1 ELSE 0
        /\ \A r \in TransitRows("overcap") :
              LinkOf(r).overcap # NaN =>
                  r.var_value = IF LinkOf(r).overcap > 0 THEN LinkOf(r).overcap ELSE 0

\* A call has returned on a link table with boarding records: a traveler who
\* boarded a full vehicle, one left behind by a vehicle over capacity, and a
\* vehicle with room whose negative overcap is clipped.
C14_Witness ==
    /\ Returned
    /\ BoardedKnown
    /\ \E r \in TransitRows("at_capacity") :
          LinkOf(r).overcap >= 0 /\ LinkOf(r).bumpstop_boarded = 1 /\ r.var_value = 0
    /\ \E r \in TransitRows("at_capacity") : LinkOf(r).overcap > 0 /\ r.var_value = 1
    /\ \E r \in TransitRows("at_capacity") : LinkOf(r).overcap < 0 /\ r.var_value = 0
    /\ \E r \in TransitRows("overcap") : LinkOf(r).overcap < 0 /\ r.var_value = 0
    /\ \E r \in TransitRows("overcap") : LinkOf(r).overcap > 0 /\ r.var_value = LinkOf(r).overcap


\* The rows of the expansion without a var_value, and those of a category.
Unresolved == { r \in call.cost_df : r.var_value = NaN }
CategoryTypes(k) ==
    CASE k = 1 -> { "access", "egress" }
      [] k = 2 -> { "transit" }
      [] k = 3 -> { "transfer" }
UnresolvedIn(k) == { r \in Unresolved : r.demand_mode_type \in CategoryTypes(k) }

\* C15: a call that finds a (link, weight row) pair without var_value in any of
\* the three categories raises NotImplementedError and leaves no cost in the
\* path or link table; it raises exactly when the number of such pairs is
\* greater than 0, after all three categories have been resolved and the
\* missing rows of each have been logged, so a call that goes on to the cost
\* multiplication has a var_value in every row.
C15_AbortIffUnresolved ==
    Resolved =>
        /\ call.raised = "NotImplementedError" <=> Cardinality(Unresolved) > 0
        /\ Len(call.log) = 3
        /\ \A k \in 1..3 :
              /\ call.log[k].missing = Cardinality(UnresolvedIn(k))
              /\ call.log[k].total =
                    Cardinality({ r \in call.cost_df : r.demand_mode_type \in CategoryTypes(k) })
        /\ call.raised = "NotImplementedError" =>
              /\ pc = "aborted"
              /\ ~ HasColumn(pathset_paths_df, "sim_cost")
              /\ ~ HasColumn(pathset_links_df, "sim_cost")
        /\ call.raised = "" =>
              \A r \in call.cost_df : r.var_value # NaN /\ "sim_cost" \in DOMAIN r

\* A call has raised with unresolved pairs in all three categories at once,
\* next to pairs of each category that were resolved.
C15_Witness ==
    /\ Resolved
    /\ call.raised = "NotImplementedError"
    /\ \A k \in 1..3 : call.log[k].missing > 0 /\ call.log[k].missing < call.log[k].total

\* The rows of access and egress links for weights other than the preferred
\* delay.
ImpedanceRows ==
    { r \in call.cost_df :
        r.demand_mode_type \in { "access", "egress" } /\ r.weight_name # "preferred_delay_min" }

\* The rows of an impedance table for the link and supply mode of row r: zone
\* to stop for an access mode, stop to zone for an egress mode.
TableRowsFor(table, r) ==
    { x \in Range(table) :
        /\ x.supply_mode_num = r.supply_mode_num
        /\ \/ /\ x.supply_mode_num \in ACCESS_MODE_NUMS
              /\ x.taz_num = LinkOf(r).A_id_num
              /\ x.stop_id_num = LinkOf(r).B_id_num
           \/ /\ x.supply_mode_num \in EGRESS_MODE_NUMS
              /\ x.stop_id_num = LinkOf(r).A_id_num
              /\ x.taz_num = LinkOf(r).B_id_num }

\* The table consulted for row r, if any.
Consulted(table, mode_nums, r) ==
    /\ Len(table) > 0
    /\ \E i \in DOMAIN table : r.weight_name \in DOMAIN table[i].nums
    /\ r.supply_mode_num \in mode_nums

TableValue(table, r) ==
    IF TableRowsFor(table, r) = {} THEN { NaN }
    ELSE { x.nums[r.weight_name] : x \in TableRowsFor(table, r) }

\* The link table has a link whose link mode is none of the four.
HasStrayLink ==
    \E l \in Range(pathset_links_df) :
        l.linkmode \notin { STATE_MODE_ACCESS, STATE_MODE_EGRESS, STATE_MODE_TRIP,
                            STATE_MODE_TRANSFER }

HasForeignRow(table) ==
    \E i \in DOMAIN table : table[i].supply_mode_num \notin ACCESS_MODE_NUMS \cup EGRESS_MODE_NUMS

\* C19: the var_value of an access or egress link for a weight other than
\* preferred_delay_min is the column named by the weight in the walk table
\* when the table has that numeric column and the link's supply mode number is
\* a walk mode, in the drive table when it has the column and the number is a
\* drive mode, read in the row keyed by (A, supply mode number, B) with zone
\* and stop as A and B for access modes and as B and A for egress modes; it
\* is unresolved otherwise, as on every bike link, and the call then raises
\* NotImplementedError.  A table row of a mode that is neither an access nor
\* an egress mode fails an assertion, which nothing else but a link of no
\* link mode does.
C19_ImpedanceFromTables ==
    call.op = "calculate_cost" =>
        /\ call.raised = "AssertionError" <=>
              HasStrayLink \/ HasForeignRow(walk_df) \/ HasForeignRow(drive_df)
        /\ Resolved =>
              \A r \in ImpedanceRows :
                  /\ r.var_value \in
                        IF Consulted(walk_df, WALK_MODE_NUMS, r) THEN TableValue(walk_df, r)
                        ELSE IF Consulted(drive_df, DRIVE_MODE_NUMS, r) THEN TableValue(drive_df, r)
                        ELSE { NaN }
                  /\ r.supply_mode_num \in BIKE_MODE_NUMS => r.var_value = NaN
                  /\ r.var_value = NaN => call.raised = "NotImplementedError"

\* A call has raised on a bike access link, having read a walk access, a walk
\* egress and a drive egress time from the tables.
C19_Witness ==
    /\ Resolved
    /\ call.raised = "NotImplementedError"
    /\ \E r \in ImpedanceRows : r.supply_mode_num \in BIKE_MODE_NUMS
    /\ \A r \in ImpedanceRows : r.var_value = NaN => r.supply_mode_num \in BIKE_MODE_NUMS
    /\ \E r \in ImpedanceRows : r.supply_mode = "walk_access" /\ r.var_value = 5
    /\ \E r \in ImpedanceRows : r.supply_mode = "walk_egress" /\ r.var_value = 3
    /\ \E r \in ImpedanceRows : r.supply_mode = "drive_egress" /\ r.var_value = 4

\* C18: no call of calculate_cost, returning or raising, changes the
\* process-wide weight table; a step that changes it is a call of
\* verify_weight_config.
C18_WeightsReadOnly ==
    [][ /\ call'.op = "calculate_cost" => WEIGHTS_DF' = WEIGHTS_DF
        /\ WEIGHTS_DF' # WEIGHTS_DF => call'.op = "verify_weight_config" ]_vars

\* A second call of calculate_cost has returned, on a table that
\* verify_weight_config had added at_capacity rows and mode numbers to.
C18_Witness ==
    /\ Returned
    /\ call.entry_costed
    /\ \E i \in DOMAIN WEIGHTS_DF :
          WEIGHTS_DF[i].weight_name = "at_capacity" /\ WEIGHTS_DF[i].supply_mode_num # NaN
    /\ Len(WEIGHTS_DF) > Cardinality(VarRows)

(***************************************************************************)
(* Properties of the PathSet object                                        *)
(***************************************************************************)
\* C16: constructing a PathSet from a trip with time target arrival gives
\* direction outbound and the time of the trip's arrival as preferred time;
\* with time target departure, direction inbound and the time of the trip's
\* departure; with any other time target the constructor raises and there is
\* no PathSet.  outbound() is true exactly for a trip with time target arrival,
\* and no later operation changes the direction.
C16_DirectionFromTimeTarget ==
    [][ /\ (pathset = NoPathSet /\ call'.op = "PathSet") =>
              CASE call'.trip_list_dict.time_target = "arrival" ->
                      /\ call'.raised = ""
                      /\ pathset'.constructed
                      /\ pathset'.direction = DIR_OUTBOUND
                      /\ pathset'.pref_time = TimeOf(call'.trip_list_dict.arrival_time)
                      /\ outbound(pathset')
                [] call'.trip_list_dict.time_target = "departure" ->
                      /\ call'.raised = ""
                      /\ pathset'.constructed
                      /\ pathset'.direction = DIR_INBOUND
                      /\ pathset'.pref_time = TimeOf(call'.trip_list_dict.departure_time)
                      /\ ~ outbound(pathset')
                [] OTHER ->
                      /\ call'.raised = "Exception"
                      /\ pathset' = NoPathSet
        /\ pathset.constructed =>
              /\ pathset'.constructed
              /\ pathset'.direction = pathset.direction
              /\ outbound(pathset') <=> pathset'.attributes.time_target = "arrival" ]_vars

\* The PathSet of a departure trip whose two times differ has been reset
\* after the search engine had stored paths in it.
C16_Witness ==
    /\ pathset.constructed
    /\ pathset.attributes.time_target = "departure"
    /\ pathset.attributes.arrival_time # pathset.attributes.departure_time
    /\ pathset.direction = DIR_INBOUND
    /\ call.op = "reset"
    /\ path_found(call.self)


\* reset has left everything but the paths as it was.
ResetKeepsTrip ==
    /\ pathset.attributes = call.self.attributes
    /\ pathset.direction = call.self.direction
    /\ pathset.pref_time = call.self.pref_time
    /\ pathset.pref_time_min = call.self.pref_time_min

\* C17 as stated: a new PathSet has an empty path mapping; path_found() is
\* true exactly when num_paths() > 0; after reset() path_found() is false,
\* num_paths() is 0 and direction, preferred time and the trip attributes are
\* unchanged; the path container is a mapping in every state.
C17_AlwaysMapping ==
    pathset.constructed =>
        /\ call.op = "PathSet" => pathset.pathdict = EmptyDict
        /\ path_found(pathset) <=> num_paths(pathset) > 0
        /\ call.op = "reset" =>
              ~ path_found(pathset) /\ num_paths(pathset) = 0 /\ ResetKeepsTrip
        /\ pathset.pathdict.type = "dict"

\* C17 as the code has it: the same, except that reset() leaves an empty list
\* as path container, which stays until the search engine stores a dict again.
C17_ListAfterReset ==
    pathset.constructed =>
        /\ call.op = "PathSet" => pathset.pathdict = EmptyDict
        /\ path_found(pathset) <=> num_paths(pathset) > 0
        /\ call.op = "reset" =>
              ~ path_found(pathset) /\ num_paths(pathset) = 0 /\ ResetKeepsTrip
        /\ pathset.pathdict.type = IF call.op = "reset" THEN "list" ELSE "dict"

\* A PathSet that held the most paths the search engine stores has been reset.
C17_Witness ==
    /\ pathset.constructed
    /\ call.op = "reset"
    /\ num_paths(call.self) = MaxPathNum
    /\ pathset.pathdict = EmptyList


(***************************************************************************)
(* Properties of the overrides and of the split of the expansion           *)
(***************************************************************************)
\* The row of the expansion is one of a link the call penalizes (bump_iter
\* of a row is the value the call read).
PenalizedRow(r) == r.missed_xfer = 1 \/ r.bump_iter >= 0
Penalized(l) == FlaggedMissed(l) \/ ReadAsBumped(l)

\* What link i adds to the cost of its path.
LinkShare(i) ==
    IF Penalized(pathset_links_df[i])
        THEN Cardinality(MatchedWeights(pathset_links_df[i])) * HUGE_COST
        ELSE SumPairs(LinkProducts(i))

\* C21: the missed-transfer and the capacity-bump override replace the cost of
\* each (link, weight row) pair by HUGE_COST before the rows are summed per
\* link, and nothing costs BUMP_EXPERIENCED_COST: a penalized link matched by
\* k >= 1 weight rows costs k x HUGE_COST, its products of variable and weight
\* adding nothing, and a path costs the sum of these and of the ordinary costs
\* of its other links.
C21_OverridePerRowThenSum ==
    Returned =>
        /\ \A r \in call.cost_df :
              r.sim_cost = IF PenalizedRow(r) THEN HUGE_COST ELSE r.var_value * r.weight_value
        /\ \A i \in DOMAIN pathset_links_df :
              (Penalized(pathset_links_df[i]) /\ MatchedWeights(pathset_links_df[i]) # {})
              => /\ pathset_links_df[i].sim_cost = LinkShare(i)
                 /\ pathset_links_df[i].sim_cost # BUMP_EXPERIENCED_COST
        /\ \A q \in DOMAIN pathset_paths_df :
              CostedLinks(pathset_paths_df[q]) # {} =>
                  pathset_paths_df[q].sim_cost =
                      SumPairs({ << i, LinkShare(i) >> : i \in CostedLinks(pathset_paths_df[q]) })

\* A later iteration has costed a path with a missed transfer matched by two
\* weight rows, whose products are not 0, next to four ordinary links, and a
\* path with a bumped link.
C21_Witness ==
    /\ Returned
    /\ call.simulation_iteration > 0
    /\ \E q \in DOMAIN pathset_paths_df :
          /\ Cardinality(CostedLinks(pathset_paths_df[q])) = 5
          /\ \E i \in CostedLinks(pathset_paths_df[q]) :
                /\ FlaggedMissed(pathset_links_df[i])
                /\ Cardinality(LinkProducts(i)) = 2
                /\ \A p \in LinkProducts(i) : p[2] # 0
                /\ pathset_links_df[i].sim_cost = 2 * HUGE_COST
          /\ pathset_paths_df[q].sim_cost > 2 * HUGE_COST
          /\ pathset_paths_df[q].sim_cost < 3 * HUGE_COST
    /\ \E i \in DOMAIN pathset_links_df :
          /\ ReadAsBumped(pathset_links_df[i])
          /\ ~ FlaggedMissed(pathset_links_df[i])
          /\ pathset_links_df[i].sim_cost >= HUGE_COST


\* C23: a call with simulation_iteration 0 reads the bump iteration of every
\* link as -1, so that no row gets the capacity-bump penalty whatever the link
\* table holds; a call with a later simulation_iteration reads it as the link
\* table gives it; either way the link table the call returns holds the
\* bump iterations it was handed.
C23_BumpIterReadNotWritten ==
    [][ (pc = "simulation" /\ call'.op = "calculate_cost" /\ call'.raised = "") =>
          /\ Len(pathset_links_df') = Len(pathset_links_df)
          /\ \A i \in DOMAIN pathset_links_df :
                pathset_links_df'[i].bump_iter = pathset_links_df[i].bump_iter
          /\ call'.simulation_iteration = 0 =>
                \A r \in call'.cost_df :
                    /\ r.bump_iter = -1
                    /\ r.sim_cost =
                          IF r.missed_xfer = 1 THEN HUGE_COST ELSE r.var_value * r.weight_value
          /\ call'.simulation_iteration > 0 =>
                \A r \in call'.cost_df :
                    /\ r.bump_iter = pathset_links_df[r.li].bump_iter
                    /\ r.bump_iter >= 0 => r.sim_cost = HUGE_COST ]_vars

\* The first simulation iteration has costed a link that the link table marks
\* as bumped at the products of its variables and weights, and the returned
\* table still marks it.
C23_Witness ==
    /\ Returned
    /\ call.simulation_iteration = 0
    /\ \E i \in DOMAIN pathset_links_df :
          /\ pathset_links_df[i].bump_iter >= 0
          /\ MatchedWeights(pathset_links_df[i]) # {}
          /\ pathset_links_df[i].sim_cost = SumPairs(LinkProducts(i))
          /\ pathset_links_df[i].sim_cost < HUGE_COST


TransferRows == { r \in call.cost_df : r.demand_mode_type = "transfer" }

\* The transfer table, or the link itself for walk_time_min, has a value for
\* the weight name of r on the link of r.
TransferSupplies(r) ==
    \/ r.weight_name = "walk_time_min"
    \/ \E x \in Range(transfers_df) :
          /\ x.from_stop_id_num = LinkOf(r).A_id_num
          /\ x.to_stop_id_num = LinkOf(r).B_id_num
          /\ r.weight_name \in DOMAIN x.nums
          /\ x.nums[r.weight_name] # NaN

\* C24: a transfer_penalty row on a transfer link always has a var_value, and
\* it is 1 whenever the transfer table has no value for the link, by lack of
\* the stop pair or of the column, on transfers between different stops and on
\* zero-distance transfers alike; a row of another weight name that nothing
\* supplies, on a transfer between different stops, makes the call raise
\* NotImplementedError.
C24_TransferPenaltyDefaultsToOne ==
    Resolved =>
        \A r \in TransferRows :
            /\ r.weight_name = "transfer_penalty" =>
                  /\ r.var_value # NaN
                  /\ ~ TransferSupplies(r) => r.var_value = 1
                  /\ r.var_value \in SuppliedPenalty(r) \cup { 1 }
            /\ /\ r.weight_name # "transfer_penalty"
               /\ ~ TransferSupplies(r)
               /\ LinkOf(r).A_id_num # LinkOf(r).B_id_num
               => /\ r.var_value = NaN
                  /\ call.raised = "NotImplementedError"

\* A returned call under a transfer table without a transfer_penalty column
\* used 1 for a transfer between different stops and for a zero-distance one.
C24_Witness ==
    /\ Returned
    /\ "transfer_penalty" \notin NumericColumns(transfers_df)
    /\ \E r \in TransferRows :
          /\ r.weight_name = "transfer_penalty"
          /\ LinkOf(r).A_id_num # LinkOf(r).B_id_num
          /\ r.var_value = 1
    /\ \E r \in TransferRows :
          /\ r.weight_name = "transfer_penalty"
          /\ LinkOf(r).A_id_num = LinkOf(r).B_id_num
          /\ r.var_value = 1


\* The rows of the recombined table that come from link i and weight row j.
PairRows(i, j) == { r \in call.cost_df : r.li = i /\ r.wi = j }

\* The (link, weight row) pairs of the inner join of the link table with the
\* weights.
ExpansionPairs ==
    { x \in (DOMAIN pathset_links_df) \X (DOMAIN WEIGHTS_DF) :
        /\ WEIGHTS_DF[x[2]].user_class = TripOf(pathset_links_df[x[1]]).user_class
        /\ WEIGHTS_DF[x[2]].demand_mode_type = pathset_links_df[x[1]].linkmode
        /\ WEIGHTS_DF[x[2]].demand_mode = LinkDemandMode(pathset_links_df[x[1]])
        /\ WEIGHTS_DF[x[2]].supply_mode = pathset_links_df[x[1]].mode }

\* The number of rows of the walk, drive and transfer table that hold the key
\* of link i for weight row j, an empty walk or drive table not being looked
\* at.
KeyRows(table, a, m, b) ==
    { k \in DOMAIN table : /\ LinkDfA(table[k]) = a
                           /\ table[k].supply_mode_num = m
                           /\ LinkDfB(table[k]) = b }

StopPairRows(a, b) ==
    { k \in DOMAIN transfers_df : /\ transfers_df[k].from_stop_id_num = a
                                  /\ transfers_df[k].to_stop_id_num = b }

AtLeastOne(n) == IF n = 0 THEN 1 ELSE n

Copies(i, j) ==
    LET l == pathset_links_df[i]
        m == WEIGHTS_DF[j].supply_mode_num
    IN  CASE l.linkmode \in { STATE_MODE_ACCESS, STATE_MODE_EGRESS } ->
                AtLeastOne(Cardinality(KeyRows(walk_df, l.A_id_num, m, l.B_id_num)))
                    * AtLeastOne(Cardinality(KeyRows(drive_df, l.A_id_num, m, l.B_id_num)))
          [] l.linkmode = STATE_MODE_TRANSFER ->
                AtLeastOne(Cardinality(StopPairRows(l.A_id_num, l.B_id_num)))
          [] OTHER -> 1

\* The three parts of the recombined table.
AccEgrPart == { r \in call.cost_df : r.demand_mode_type \in { STATE_MODE_ACCESS, STATE_MODE_EGRESS } }
TripPart == { r \in call.cost_df : r.demand_mode_type = STATE_MODE_TRIP }
TransferPart == { r \in call.cost_df : r.demand_mode_type = STATE_MODE_TRANSFER }

SplitIsPartition ==
    /\ AccEgrPart \cap TripPart = {}
    /\ AccEgrPart \cap TransferPart = {}
    /\ TripPart \cap TransferPart = {}
    /\ AccEgrPart \cup TripPart \cup TransferPart = call.cost_df
    /\ { << r.li, r.wi >> : r \in call.cost_df } = ExpansionPairs

\* C25 as the specification states it: a link table with a link of another
\* link mode fails the assertion, and otherwise the three parts are disjoint,
\* hold every row of the expansion, and the recombined table has each
\* (link, weight row) pair exactly once.
C25_EachPairOnce ==
    call.op = "calculate_cost" =>
        /\ HasStrayLink => call.raised = "AssertionError"
        /\ Resolved =>
              /\ ~ HasStrayLink
              /\ SplitIsPartition
              /\ \A x \in ExpansionPairs : Cardinality(PairRows(x[1], x[2])) = 1

\* C25: a link table with a link of another link mode fails the assertion,
\* and otherwise the three parts are disjoint and hold every (link, weight
\* row) pair of the expansion, each pair once for every row of the walk, drive
\* or transfer table that the left merge of its part pairs with it, which is
\* exactly once when no table holds a key twice.
C25_EachPairOncePerTableRow ==
    call.op = "calculate_cost" =>
        /\ HasStrayLink => call.raised = "AssertionError"
        /\ Resolved =>
              /\ ~ HasStrayLink
              /\ SplitIsPartition
              /\ \A x \in ExpansionPairs :
                    Cardinality(PairRows(x[1], x[2])) = Copies(x[1], x[2])

\* A returned call costed a transfer link twice for one weight row, the
\* transfer table holding two rows for its stop pair, and every other pair of
\* the batch once.
C25_Witness ==
    /\ Returned
    /\ \E x \in ExpansionPairs :
          /\ pathset_links_df[x[1]].linkmode = STATE_MODE_TRANSFER
          /\ Cardinality(PairRows(x[1], x[2])) = 2
    /\ \E x \in ExpansionPairs :
          /\ pathset_links_df[x[1]].linkmode = STATE_MODE_ACCESS
          /\ Cardinality(PairRows(x[1], x[2])) = 1
    /\ TripPart # {}


====
